---------------------------- MODULE Spec2Model ----------------------------
(***************************************************************************)
(* Whiteboard engine (scene graph, camera, pointer state machine, history) *)
(* of src/unnamed/part_000, as a state machine.                            *)
(*                                                                         *)
(* Numbers are exact rationals <<n, d>> (d > 0, lowest terms): the camera  *)
(* divides by its scale, so integers alone cannot carry the arithmetic.    *)
(* A JavaScript null is NoId for an id and the empty tuple for an object;  *)
(* a present object x is the one-element tuple <<x>>.                      *)
(***************************************************************************)
EXTENDS Integers, Sequences, FiniteSets, TLC

(***************************************************************************)
(* Rational arithmetic                                                     *)
(***************************************************************************)
AbsI(n) == IF n < 0 THEN -n ELSE n

RECURSIVE GCD(_, _)
GCD(a, b) == IF b = 0 THEN a ELSE GCD(b, a % b)

Rat(n, d) ==
  LET g == GCD(AbsI(n), AbsI(d))
      sg == IF d < 0 THEN -1 ELSE 1
  IN  << (sg * n) \div g, (sg * d) \div g >>

I(n) == << n, 1 >>
\* sums over the least common denominator, to keep the numbers small
Lcd(a, b)    == (a[2] \div GCD(a[2], b[2])) * b[2]
Plus(a, b)   == Rat(a[1] * (Lcd(a, b) \div a[2]) + b[1] * (Lcd(a, b) \div b[2]), Lcd(a, b))
Minus(a, b)  == Rat(a[1] * (Lcd(a, b) \div a[2]) - b[1] * (Lcd(a, b) \div b[2]), Lcd(a, b))
\* products are reduced crosswise before they are multiplied
Times(a, b)  ==
  LET Cross(g, h) == Rat((a[1] \div g) * (b[1] \div h), (a[2] \div h) * (b[2] \div g))
  IN  Cross(GCD(AbsI(a[1]), b[2]), GCD(AbsI(b[1]), a[2]))
Over(a, b)   == Times(a, IF b[1] < 0 THEN << -b[2], -b[1] >> ELSE << b[2], b[1] >>)
Neg(a)       == << -a[1], a[2] >>
Half(a)      == Rat(a[1], 2 * a[2])
Less(a, b)   == a[1] * b[2] < b[1] * a[2]
LessEq(a, b) == a[1] * b[2] <= b[1] * a[2]
AbsR(a)      == << AbsI(a[1]), a[2] >>
MinR(a, b)   == IF Less(b, a) THEN b ELSE a
MaxR(a, b)   == IF Less(a, b) THEN b ELSE a
Sq(a)        == Times(a, a)
Zero         == I(0)
One          == I(1)

\* Math.hypot(a, b) < c and Math.hypot(a, b) <= c, without the square root
HypotLess(a, b, c) ==
  /\ Less(Zero, c) /\ Less(AbsR(a), c) /\ Less(AbsR(b), c)
  /\ Less(Plus(Sq(a), Sq(b)), Sq(c))
HypotLessEq(a, b, c) ==
  /\ LessEq(Zero, c) /\ LessEq(AbsR(a), c) /\ LessEq(AbsR(b), c)
  /\ LessEq(Plus(Sq(a), Sq(b)), Sq(c))

RECURSIVE MinOf(_)
MinOf(seq) == IF Len(seq) = 1 THEN seq[1] ELSE MinR(seq[1], MinOf(Tail(seq)))
RECURSIVE MaxOf(_)
MaxOf(seq) == IF Len(seq) = 1 THEN seq[1] ELSE MaxR(seq[1], MaxOf(Tail(seq)))

RECURSIVE SelectSeq2(_, _)
SelectSeq2(seq, keep) ==
  IF seq = << >> THEN << >>
  ELSE IF keep[1] THEN << seq[1] >> \o SelectSeq2(Tail(seq), Tail(keep))
       ELSE SelectSeq2(Tail(seq), Tail(keep))

(***************************************************************************)
(* Program constants                                                       *)
(***************************************************************************)
MAX_HIST   == 60
HANDLE_R   == 6
HIT_THRESH == 8
NoId       == 0

ScaleMin == Rat(5, 100)
ScaleMax == I(20)
Highlight == Rat(42, 100)

HandleIds == << "nw", "n", "ne", "e", "se", "s", "sw", "w" >>
ShapeTools == { "line", "rect", "circle" }

(***************************************************************************)
(* State                                                                   *)
(***************************************************************************)
VARIABLES
  objects, stickies, objSeq, stickySeq,   \* scene store
  cam,                                     \* camera {x, y, scale}
  tool, color, brushSize,                  \* active tool and styling
  selectedId, selIsSicky,                  \* selection
  iState, panOrigin, drawOrigin, liveStroke, previewObj,
  moveOrigin, resizeHandle, resizeOrigin, spaceHeld,
  textEditor, editingId,                   \* inline text editing
  history, histIdx,                        \* undo / redo
  initialized, isOpen,                     \* one-time init flag, overlay open
  lastTouchDist,                           \* pinch
  stickyGrab,                              \* document-level note drag / resize listeners
  rafPending, rafQueue,                    \* render scheduling: the flag, and the render
                                           \* callbacks the browser holds for the next frame
  editorEl, blurTimers,                    \* the textarea element of the inline editor (the
                                           \* n-th one created), and the elements whose blur
                                           \* listener has a timer pending
  env                                      \* the environment: what the user does next

progVars == << objects, stickies, objSeq, stickySeq, cam, tool, color, brushSize,
               selectedId, selIsSicky, iState, panOrigin, drawOrigin, liveStroke,
               previewObj, moveOrigin, resizeHandle, resizeOrigin, spaceHeld,
               textEditor, editingId, history, histIdx, initialized, isOpen,
               lastTouchDist, stickyGrab >>
vars == << progVars, rafPending, rafQueue, editorEl, blurTimers, env >>

\* the program state as one record, so that a handler is a function on it
S == [ objects |-> objects, stickies |-> stickies, objSeq |-> objSeq,
       stickySeq |-> stickySeq, cam |-> cam, tool |-> tool, color |-> color,
       brushSize |-> brushSize, selectedId |-> selectedId, selIsSicky |-> selIsSicky,
       iState |-> iState, panOrigin |-> panOrigin, drawOrigin |-> drawOrigin,
       liveStroke |-> liveStroke, previewObj |-> previewObj, moveOrigin |-> moveOrigin,
       resizeHandle |-> resizeHandle, resizeOrigin |-> resizeOrigin,
       spaceHeld |-> spaceHeld, textEditor |-> textEditor, editingId |-> editingId,
       history |-> history, histIdx |-> histIdx, initialized |-> initialized,
       isOpen |-> isOpen, lastTouchDist |-> lastTouchDist, stickyGrab |-> stickyGrab ]

Becomes(s) ==
  /\ objects' = s.objects /\ stickies' = s.stickies /\ objSeq' = s.objSeq
  /\ stickySeq' = s.stickySeq /\ cam' = s.cam /\ tool' = s.tool /\ color' = s.color
  /\ brushSize' = s.brushSize /\ selectedId' = s.selectedId
  /\ selIsSicky' = s.selIsSicky /\ iState' = s.iState /\ panOrigin' = s.panOrigin
  /\ drawOrigin' = s.drawOrigin /\ liveStroke' = s.liveStroke
  /\ previewObj' = s.previewObj /\ moveOrigin' = s.moveOrigin
  /\ resizeHandle' = s.resizeHandle /\ resizeOrigin' = s.resizeOrigin
  /\ spaceHeld' = s.spaceHeld /\ textEditor' = s.textEditor
  /\ editingId' = s.editingId /\ history' = s.history /\ histIdx' = s.histIdx
  /\ initialized' = s.initialized /\ isOpen' = s.isOpen
  /\ lastTouchDist' = s.lastTouchDist /\ stickyGrab' = s.stickyGrab

(***************************************************************************)
(* Coordinate helpers                                                      *)
(***************************************************************************)
s2w(c, sx, sy) == [ x |-> Over(Minus(sx, c.x), c.scale), y |-> Over(Minus(sy, c.y), c.scale) ]
w2s(c, wx, wy) == [ x |-> Plus(Times(wx, c.scale), c.x), y |-> Plus(Times(wy, c.scale), c.y) ]


(***************************************************************************)
(* Geometry kernel                                                         *)
(***************************************************************************)
RECURSIVE SplitLines(_, _)
\* content.split('\n'): content is a sequence of one-character strings
SplitLines(content, cur) ==
  IF content = << >> THEN << cur >>
  ELSE IF content[1] = "\n" THEN << cur >> \o SplitLines(Tail(content), << >>)
       ELSE SplitLines(Tail(content), Append(cur, content[1]))

\* ctx.measureText(l).width: the browser's answer, taken as half an em per character
MeasureText(line, fontSize) == Times(I(Len(line)), Half(fontSize))

getObjById(objs, id) ==
  LET hits == SelectSeq(objs, LAMBDA o : o.id = id)
  IN  IF hits = << >> THEN << >> ELSE << hits[1] >>

getBounds(obj) ==
  CASE obj.type = "stroke" ->
         LET xs == [ i \in 1..Len(obj.points) |-> obj.points[i][1] ]
             ys == [ i \in 1..Len(obj.points) |-> obj.points[i][2] ]
             hw == Half(obj.width)
         IN  [ x |-> Minus(MinOf(xs), hw), y |-> Minus(MinOf(ys), hw),
               w |-> Plus(Minus(MaxOf(xs), MinOf(xs)), obj.width),
               h |-> Plus(Minus(MaxOf(ys), MinOf(ys)), obj.width) ]
    [] obj.type = "line" ->
         [ x |-> Minus(MinR(obj.x1, obj.x2), Half(obj.width)),
           y |-> Minus(MinR(obj.y1, obj.y2), Half(obj.width)),
           w |-> Plus(AbsR(Minus(obj.x2, obj.x1)), obj.width),
           h |-> Plus(AbsR(Minus(obj.y2, obj.y1)), obj.width) ]
    [] obj.type = "rect" ->
         [ x |-> MinR(obj.x, Plus(obj.x, obj.w)), y |-> MinR(obj.y, Plus(obj.y, obj.h)),
           w |-> AbsR(obj.w), h |-> AbsR(obj.h) ]
    [] obj.type = "circle" ->
         [ x |-> Minus(obj.cx, AbsR(obj.rx)), y |-> Minus(obj.cy, AbsR(obj.ry)),
           w |-> Times(AbsR(obj.rx), I(2)), h |-> Times(AbsR(obj.ry), I(2)) ]
    [] obj.type = "text" ->
         LET lines == SplitLines(obj.content, << >>)
             mw == MaxOf([ i \in 1..Len(lines) |-> MeasureText(lines[i], obj.fontSize) ])
         IN  [ x |-> obj.x, y |-> Minus(obj.y, obj.fontSize),
               w |-> IF mw = Zero THEN I(80) ELSE mw,
               h |-> Times(Times(I(Len(lines)), obj.fontSize), Rat(135, 100)) ]
    [] OTHER -> [ x |-> Zero, y |-> Zero, w |-> Zero, h |-> Zero ]

\* the 8 handle descriptors, in the order of HandleIds
getHandles(obj) ==
  LET Of(b) ==
        LET cx == Plus(b.x, Half(b.w))
            cy == Plus(b.y, Half(b.h))
            r == Plus(b.x, b.w)
            bt == Plus(b.y, b.h)
        IN  << [ id |-> "nw", wx |-> b.x, wy |-> b.y ], [ id |-> "n",  wx |-> cx,  wy |-> b.y ],
               [ id |-> "ne", wx |-> r,   wy |-> b.y ], [ id |-> "e",  wx |-> r,   wy |-> cy ],
               [ id |-> "se", wx |-> r,   wy |-> bt ],  [ id |-> "s",  wx |-> cx,  wy |-> bt ],
               [ id |-> "sw", wx |-> b.x, wy |-> bt ],  [ id |-> "w",  wx |-> b.x, wy |-> cy ] >>
  IN  Of(getBounds(obj))

\* the first handle whose disk holds (sx, sy), "" (null) when there is none
hitHandle(c, sx, sy, obj) ==
  LET At(sp) == HypotLessEq(Minus(sx, sp.x), Minus(sy, sp.y), I(HANDLE_R + 3))
      In(h) == At(w2s(c, h.wx, h.wy))
      First(hs, hit) ==
        IF hit = {} THEN "" ELSE hs[CHOOSE i \in hit : \A j \in hit : i <= j].id
      Among(hs) == First(hs, { i \in 1..8 : In(hs[i]) })
  IN  Among(getHandles(obj))

\* the square of distPtSeg(px, py, ax, ay, bx, by)
distPtSegSq(px, py, ax, ay, bx, by) ==
  LET Near(dx, dy, t) ==
        Plus(Sq(Minus(px, Plus(ax, Times(t, dx)))), Sq(Minus(py, Plus(ay, Times(t, dy)))))
      On(dx, dy, len2) ==
        IF len2 = Zero THEN Plus(Sq(Minus(px, ax)), Sq(Minus(py, ay)))
        ELSE Near(dx, dy,
                  MaxR(Zero, MinR(One, Over(Plus(Times(Minus(px, ax), dx),
                                                 Times(Minus(py, ay), dy)), len2))))
      Along(dx, dy) == On(dx, dy, Plus(Sq(dx), Sq(dy)))
  IN  Along(Minus(bx, ax), Minus(by, ay))

\* distPtSeg(...) < lim
distPtSegLess(px, py, ax, ay, bx, by, lim) ==
  Less(Zero, lim) /\ Less(distPtSegSq(px, py, ax, ay, bx, by), Sq(lim))

InBox(b, t, wx, wy) ==
  /\ LessEq(Minus(b.x, t), wx) /\ LessEq(wx, Plus(Plus(b.x, b.w), t))
  /\ LessEq(Minus(b.y, t), wy) /\ LessEq(wy, Plus(Plus(b.y, b.h), t))

\* a threshold that does not follow the zoom
hitThreshFixed(c) == I(HIT_THRESH)

\* t, the hit threshold in world coordinates
hitThresh(c) == Over(I(HIT_THRESH), c.scale)

hitObject(c, obj, wx, wy) ==
  LET Within(t) ==
      CASE obj.type = "stroke" ->
             \E i \in 2..Len(obj.points) :
                distPtSegLess(wx, wy, obj.points[i-1][1], obj.points[i-1][2],
                              obj.points[i][1], obj.points[i][2], Plus(t, Half(obj.width)))
        [] obj.type = "line" ->
             distPtSegLess(wx, wy, obj.x1, obj.y1, obj.x2, obj.y2, Plus(t, Half(obj.width)))
        [] obj.type = "rect" -> InBox(getBounds(obj), t, wx, wy)
        [] obj.type = "circle" ->
             LET \* |d - 1| < e with d = sqrt(d2)
                 Ring(d2, e) == /\ Less(d2, Sq(Plus(One, e)))
                                /\ (Less(One, e) \/ Less(Sq(Minus(One, e)), d2))
                 Radii(arx, ary) ==
                   Ring(Plus(Sq(Over(Minus(wx, obj.cx), arx)), Sq(Over(Minus(wy, obj.cy), ary))),
                        Over(t, MaxR(arx, One)))
             IN  Radii(AbsR(IF obj.rx = Zero THEN One ELSE obj.rx),
                       AbsR(IF obj.ry = Zero THEN One ELSE obj.ry))
        [] obj.type = "text" -> InBox(getBounds(obj), t, wx, wy)
        [] OTHER -> FALSE
  IN  Within(hitThresh(c))

\* the topmost object under (wx, wy), NoId (null) when there is none
hitTest(c, objs, wx, wy) ==
  LET Top(hit) == IF hit = {} THEN NoId ELSE objs[CHOOSE i \in hit : \A j \in hit : j <= i].id
  IN  Top({ i \in 1..Len(objs) : hitObject(c, objs[i], wx, wy) })

\* the centre of the bounding box is nearer than r
hitObjectRadiusCentre(obj, wx, wy, r) ==
  LET Of(b) == HypotLess(Minus(wx, Plus(b.x, Half(b.w))), Minus(wy, Plus(b.y, Half(b.h))), r)
  IN  Of(getBounds(obj))

hitObjectRadius(obj, wx, wy, r) ==
  LET Of(b) == HypotLess(Minus(wx, Plus(b.x, Half(b.w))), Minus(wy, Plus(b.y, Half(b.h))),
                         Plus(r, Half(MaxR(b.w, b.h))))
  IN  Of(getBounds(obj))

HasN(h) == h \in { "nw", "n", "ne" }
HasS(h) == h \in { "sw", "s", "se" }
HasW(h) == h \in { "nw", "w", "sw" }
HasE(h) == h \in { "ne", "e", "se" }

applyResize(obj, handleId, dwx, dwy) ==
  CASE obj.type = "line" ->
         IF HasW(handleId)
         THEN [ obj EXCEPT !.x1 = Plus(@, dwx), !.y1 = Plus(@, dwy) ]
         ELSE [ obj EXCEPT !.x2 = Plus(@, dwx), !.y2 = Plus(@, dwy) ]
    [] obj.type = "rect" ->
         LET o1 == IF HasN(handleId)
                   THEN [ obj EXCEPT !.y = Plus(obj.y, dwy), !.h = Minus(obj.h, dwy) ] ELSE obj
             o2 == IF HasS(handleId) THEN [ o1 EXCEPT !.h = Plus(obj.h, dwy) ] ELSE o1
             o3 == IF HasW(handleId)
                   THEN [ o2 EXCEPT !.x = Plus(obj.x, dwx), !.w = Minus(obj.w, dwx) ] ELSE o2
         IN  IF HasE(handleId) THEN [ o3 EXCEPT !.w = Plus(obj.w, dwx) ] ELSE o3
    [] obj.type = "circle" ->
         LET o1 == IF HasE(handleId) \/ HasW(handleId)
                   THEN [ obj EXCEPT !.rx = Plus(@, Half(IF HasE(handleId) THEN dwx ELSE Neg(dwx))) ]
                   ELSE obj
         IN  IF HasN(handleId) \/ HasS(handleId)
             THEN [ o1 EXCEPT !.ry = Plus(@, Half(IF HasS(handleId) THEN dwy ELSE Neg(dwy))) ]
             ELSE o1
    [] OTHER -> obj

\* a move that takes only the first endpoint of a line along
moveObjectFirstEnd(obj, dwx, dwy) ==
  CASE obj.type = "stroke" ->
         [ obj EXCEPT !.points = [ i \in 1..Len(@) |-> << Plus(@[i][1], dwx), Plus(@[i][2], dwy) >> ] ]
    [] obj.type = "line" -> [ obj EXCEPT !.x1 = Plus(@, dwx), !.y1 = Plus(@, dwy) ]
    [] obj.type = "rect"   -> [ obj EXCEPT !.x = Plus(@, dwx), !.y = Plus(@, dwy) ]
    [] obj.type = "circle" -> [ obj EXCEPT !.cx = Plus(@, dwx), !.cy = Plus(@, dwy) ]
    [] obj.type = "text"   -> [ obj EXCEPT !.x = Plus(@, dwx), !.y = Plus(@, dwy) ]
    [] OTHER -> obj

moveObject(obj, dwx, dwy) ==
  CASE obj.type = "stroke" ->
         [ obj EXCEPT !.points = [ i \in 1..Len(@) |-> << Plus(@[i][1], dwx), Plus(@[i][2], dwy) >> ] ]
    [] obj.type = "line" ->
         [ obj EXCEPT !.x1 = Plus(@, dwx), !.y1 = Plus(@, dwy),
                      !.x2 = Plus(@, dwx), !.y2 = Plus(@, dwy) ]
    [] obj.type = "rect"   -> [ obj EXCEPT !.x = Plus(@, dwx), !.y = Plus(@, dwy) ]
    [] obj.type = "circle" -> [ obj EXCEPT !.cx = Plus(@, dwx), !.cy = Plus(@, dwy) ]
    [] obj.type = "text"   -> [ obj EXCEPT !.x = Plus(@, dwx), !.y = Plus(@, dwy) ]
    [] OTHER -> obj

\* makeShape(t, x1, y1, x2, y2): << >> is the undefined it returns for any other tool
\* a shape that stays at its anchor point
makeShapeAtAnchor(s, t, x1, y1, x2, y2) ==
  CASE t = "line" ->
         << [ id |-> NoId, color |-> s.color, width |-> I(s.brushSize), type |-> "line",
              x1 |-> x1, y1 |-> y1, x2 |-> x1, y2 |-> y1 ] >>
    [] t = "rect" ->
         << [ id |-> NoId, color |-> s.color, width |-> I(s.brushSize), type |-> "rect",
              x |-> x1, y |-> y1, w |-> Zero, h |-> Zero ] >>
    [] t = "circle" ->
         << [ id |-> NoId, color |-> s.color, width |-> I(s.brushSize), type |-> "circle",
              cx |-> x1, cy |-> y1, rx |-> Zero, ry |-> Zero ] >>
    [] OTHER -> << >>

makeShape(s, t, x1, y1, x2, y2) ==
  CASE t = "line" ->
         << [ id |-> NoId, color |-> s.color, width |-> I(s.brushSize), type |-> "line",
              x1 |-> x1, y1 |-> y1, x2 |-> x2, y2 |-> y2 ] >>
    [] t = "rect" ->
         << [ id |-> NoId, color |-> s.color, width |-> I(s.brushSize), type |-> "rect",
              x |-> x1, y |-> y1, w |-> Minus(x2, x1), h |-> Minus(y2, y1) ] >>
    [] t = "circle" ->
         << [ id |-> NoId, color |-> s.color, width |-> I(s.brushSize), type |-> "circle",
              cx |-> Half(Plus(x1, x2)), cy |-> Half(Plus(y1, y2)),
              rx |-> Half(AbsR(Minus(x2, x1))), ry |-> Half(AbsR(Minus(y2, y1))) ] >>
    [] OTHER -> << >>


(***************************************************************************)
(* References                                                              *)
(*                                                                         *)
(* TLA+ values are never shared, JavaScript objects are.  A history entry  *)
(* therefore carries `alias`: which of its parts are the very objects of   *)
(* the live scene ("objArr" the objects array, "objEl" its elements,       *)
(* "stkArr"/"stkEl" the same for note cards, "cam" the camera object).     *)
(* An in-place write to a live part is also a write to every entry that    *)
(* aliases it.  A copy yields the value and whether it shares the source.  *)
(***************************************************************************)
\* a clone that is the array it was given
deepCloneSame(o) == [ val |-> o, shares |-> TRUE ]

NumberFields == { "x", "y", "w", "h", "x1", "y1", "x2", "y2", "cx", "cy", "rx", "ry",
                  "width", "fontSize", "opacity" }
\* JSON has no Infinity and no NaN (n / 0 here): JSON.stringify writes null for
\* them, which arithmetic then reads as 0
JsonNumber(r) == IF r[2] = 0 THEN Zero ELSE r
\* JSON.parse(JSON.stringify(o)) of one object or note card
JsonValue(o) ==
  [ f \in DOMAIN o |->
      IF f \in NumberFields THEN JsonNumber(o[f])
      ELSE IF f = "points"
      THEN [ i \in 1..Len(o[f]) |-> << JsonNumber(o[f][i][1]), JsonNumber(o[f][i][2]) >> ]
      ELSE o[f] ]

\* deepClone(o) == JSON.parse(JSON.stringify(o)): a new array of new elements
deepClone(o) == [ val |-> [ i \in 1..Len(o) |-> JsonValue(o[i]) ], shares |-> FALSE ]

\* { ...cam }: a new object with the same three numbers
spreadCam(c) == [ val |-> [ x |-> c.x, y |-> c.y, scale |-> c.scale ], shares |-> FALSE ]

ReplaceFirst(seq, id, new) ==
  LET at == { i \in 1..Len(seq) : seq[i].id = id }
  IN  IF at = {} THEN seq
      ELSE [ seq EXCEPT ![CHOOSE i \in at : \A j \in at : i <= j] = new ]

\* obj.field = ... on the live object with this id
WriteObj(s, id, new) ==
  [ s EXCEPT !.objects = ReplaceFirst(@, id, new),
             !.history = [ i \in 1..Len(@) |->
                 IF "objEl" \in @[i].alias
                 THEN [ @[i] EXCEPT !.objects = ReplaceFirst(@, id, new) ] ELSE @[i] ] ]

\* objects.push(o)
PushObj(s, o) ==
  [ s EXCEPT !.objects = Append(@, o),
             !.history = [ i \in 1..Len(@) |->
                 IF "objArr" \in @[i].alias
                 THEN [ @[i] EXCEPT !.objects = Append(@, o), !.alias = @ \cup { "objEl" } ]
                 ELSE @[i] ] ]

\* objects = <a new array>
AssignObjects(s, objs) ==
  [ s EXCEPT !.objects = objs,
             !.history = [ i \in 1..Len(@) |-> [ @[i] EXCEPT !.alias = @ \ { "objArr" } ] ] ]

\* s.field = ... on the live note card with this id
WriteSticky(s, id, new) ==
  [ s EXCEPT !.stickies = ReplaceFirst(@, id, new),
             !.history = [ i \in 1..Len(@) |->
                 IF "stkEl" \in @[i].alias
                 THEN [ @[i] EXCEPT !.stickies = ReplaceFirst(@, id, new) ] ELSE @[i] ] ]

\* stickies.push(n)
PushSticky(s, n) ==
  [ s EXCEPT !.stickies = Append(@, n),
             !.history = [ i \in 1..Len(@) |->
                 IF "stkArr" \in @[i].alias
                 THEN [ @[i] EXCEPT !.stickies = Append(@, n), !.alias = @ \cup { "stkEl" } ]
                 ELSE @[i] ] ]

\* stickies = <a new array>
AssignStickies(s, ns) ==
  [ s EXCEPT !.stickies = ns,
             !.history = [ i \in 1..Len(@) |-> [ @[i] EXCEPT !.alias = @ \ { "stkArr" } ] ] ]

\* cam.x = ..., cam.y = ..., cam.scale = ... on the live camera object
WriteCam(s, c) ==
  [ s EXCEPT !.cam = c,
             !.history = [ i \in 1..Len(@) |->
                 IF "cam" \in @[i].alias THEN [ @[i] EXCEPT !.cam = c ] ELSE @[i] ] ]

\* cam = <a new object>
AssignCam(s, c) ==
  [ s EXCEPT !.cam = c,
             !.history = [ i \in 1..Len(@) |-> [ @[i] EXCEPT !.alias = @ \ { "cam" } ] ] ]

(***************************************************************************)
(* Undo / redo                                                             *)
(***************************************************************************)
\* the entry pushHistory appends: { objects: deepClone(objects), stickies:
\* deepClone(stickies), cam: { ...cam } }
Snapshot(s) ==
  LET Of(co, cs, cc) ==
        [ objects |-> co.val, stickies |-> cs.val, cam |-> cc.val,
          alias |-> (IF co.shares THEN { "objArr", "objEl" } ELSE {})
                    \cup (IF cs.shares THEN { "stkArr", "stkEl" } ELSE {})
                    \cup (IF cc.shares THEN { "cam" } ELSE {}) ]
  IN  Of(deepClone(s.objects), deepClone(s.stickies), spreadCam(s.cam))

\* a pushHistory without history.slice(0, histIdx + 1)
pushHistoryKeep(s) ==
  LET Shift(h) == IF Len(h) > MAX_HIST THEN Tail(h) ELSE h
      Top(h) == [ s EXCEPT !.history = h, !.histIdx = Len(h) - 1 ]
  IN  Top(Shift(Append(s.history, Snapshot(s))))

\* a pushHistory without history.shift()
pushHistoryGrow(s) ==
  LET Top(h) == [ s EXCEPT !.history = h, !.histIdx = Len(h) - 1 ]
  IN  Top(Append(SubSeq(s.history, 1, s.histIdx + 1), Snapshot(s)))

\* histIdx is the 0-based index of the source: history[histIdx] is s.history[histIdx + 1]
pushHistory(s) ==
  LET Shift(h) == IF Len(h) > MAX_HIST THEN Tail(h) ELSE h
      Top(h) == [ s EXCEPT !.history = h, !.histIdx = Len(h) - 1 ]
  IN  Top(Shift(Append(SubSeq(s.history, 1, s.histIdx + 1), Snapshot(s))))

\* a note-card drag or resize in progress holds the card object it started on: the
\* card is no longer that object once the array is replaced by copies
Detach(g) == IF g = << >> THEN g ELSE << [ g[1] EXCEPT !.live = FALSE ] >>

\* an applySnapshot that leaves the note cards as they are
applySnapshotObjects(s, k) ==
  [ s EXCEPT !.objects = s.history[k + 1].objects, !.cam = s.history[k + 1].cam,
             !.selectedId = NoId ]

\* applySnapshot(history[k]) for the 0-based k
applySnapshot(s, k) ==
  LET Put(co, cs, cc) ==
        [ s EXCEPT !.objects = co.val, !.stickies = cs.val, !.cam = cc.val,
                   !.selectedId = NoId,
                   !.stickyGrab = IF cs.shares THEN @ ELSE Detach(@),
                   !.history = [ i \in 1..Len(@) |->
                       [ @[i] EXCEPT !.alias =
                           IF i = k + 1
                           THEN (IF co.shares THEN { "objArr", "objEl" } ELSE {})
                                \cup (IF cs.shares THEN { "stkArr", "stkEl" } ELSE {})
                                \cup (IF cc.shares THEN { "cam" } ELSE {})
                           ELSE {} ] ] ]
      From(snap) == Put(deepClone(snap.objects), deepClone(snap.stickies), spreadCam(snap.cam))
  IN  From(s.history[k + 1])

\* an undo that drops the selection before it looks at the pointer
undoDeselect(s) ==
  IF s.histIdx > 0 THEN applySnapshot([ s EXCEPT !.histIdx = @ - 1 ], s.histIdx - 1)
  ELSE [ s EXCEPT !.selectedId = NoId ]

undo(s) ==
  IF s.histIdx > 0 THEN applySnapshot([ s EXCEPT !.histIdx = @ - 1 ], s.histIdx - 1) ELSE s

redo(s) ==
  IF s.histIdx < Len(s.history) - 1
  THEN applySnapshot([ s EXCEPT !.histIdx = @ + 1 ], s.histIdx + 1) ELSE s

(***************************************************************************)
(* Inline text editor                                                      *)
(***************************************************************************)
IsSpace(ch) == ch \in { " ", "\n" }

RECURSIVE TrimLeft(_)
TrimLeft(v) == IF v # << >> /\ IsSpace(v[1]) THEN TrimLeft(Tail(v)) ELSE v
RECURSIVE TrimRight(_)
TrimRight(v) ==
  IF v # << >> /\ IsSpace(v[Len(v)]) THEN TrimRight(SubSeq(v, 1, Len(v) - 1)) ELSE v

\* String.prototype.trim
Trim(v) == TrimRight(TrimLeft(v))

FontSize(s) == IF 13 > s.brushSize * 4 THEN 13 ELSE s.brushSize * 4

\* the editor is removed, its target is kept
cancelTextEditOnly(s) == [ s EXCEPT !.textEditor = << >> ]

cancelTextEdit(s) ==
  IF s.textEditor = << >> THEN s
  ELSE [ s EXCEPT !.textEditor = << >>, !.editingId = NoId ]

openTextEditor(s, existingObj, wx, wy) ==
  LET s1 == cancelTextEdit(s)
  IN  [ s1 EXCEPT
          !.editingId = IF existingObj = << >> THEN NoId ELSE existingObj[1].id,
          !.textEditor = << [ value |-> IF existingObj = << >> THEN << >>
                                          ELSE existingObj[1].content,
                              wx |-> wx, wy |-> wy ] >> ]

\* a commit that takes textEditor.value as it is, without trim()
commitTextEditUntrimmed(s) ==
  IF s.textEditor = << >> THEN s
  ELSE
    LET te == s.textEditor[1]
        val == te.value
        s1 == [ s EXCEPT !.textEditor = << >> ]
    IN  IF val = << >> THEN [ s1 EXCEPT !.editingId = NoId ]
        ELSE
          LET s2 ==
                IF s1.editingId # NoId
                THEN LET obj == getObjById(s1.objects, s1.editingId)
                     IN  IF obj # << >>
                         THEN WriteObj(s1, s1.editingId,
                                       [ obj[1] EXCEPT !.content = val, !.color = s1.color ])
                         ELSE s1
                ELSE [ PushObj(s1, [ id |-> s1.objSeq, type |-> "text", x |-> te.wx,
                                     y |-> te.wy, content |-> val, color |-> s1.color,
                                     fontSize |-> I(FontSize(s1)) ])
                       EXCEPT !.objSeq = @ + 1 ]
          IN  pushHistory([ s2 EXCEPT !.editingId = NoId ])

commitTextEdit(s) ==
  IF s.textEditor = << >> THEN s
  ELSE
    LET te == s.textEditor[1]
        val == Trim(te.value)
        s1 == [ s EXCEPT !.textEditor = << >> ]
    IN  IF val = << >> THEN [ s1 EXCEPT !.editingId = NoId ]
        ELSE
          LET s2 ==
                IF s1.editingId # NoId
                THEN LET obj == getObjById(s1.objects, s1.editingId)
                     IN  IF obj # << >>
                         THEN WriteObj(s1, s1.editingId,
                                       [ obj[1] EXCEPT !.content = val, !.color = s1.color ])
                         ELSE s1
                ELSE [ PushObj(s1, [ id |-> s1.objSeq, type |-> "text", x |-> te.wx,
                                     y |-> te.wy, content |-> val, color |-> s1.color,
                                     fontSize |-> I(FontSize(s1)) ])
                       EXCEPT !.objSeq = @ + 1 ]
          IN  pushHistory([ s2 EXCEPT !.editingId = NoId ])

setToolResetView(s, t) == [ cancelTextEdit(s) EXCEPT !.tool = t, !.cam = [ x |-> Zero, y |-> Zero, scale |-> One ] ]

setTool(s, t) == [ cancelTextEdit(s) EXCEPT !.tool = t ]

(***************************************************************************)
(* Eraser                                                                  *)
(***************************************************************************)
\* an eraseAt that leaves the selection as it is
eraseAtOnly(s, wx, wy) ==
  LET Outside(t) ==
        AssignObjects(s, SelectSeq(s.objects, LAMBDA o : ~ hitObjectRadius(o, wx, wy, t)))
  IN  Outside(Over(I(s.brushSize * 3), s.cam.scale))

eraseAt(s, wx, wy) ==
  LET Drop(kept, s1) ==
        IF Len(kept) # Len(s.objects)
        THEN IF s1.selectedId # NoId /\ getObjById(kept, s1.selectedId) = << >>
             THEN [ s1 EXCEPT !.selectedId = NoId ] ELSE s1
        ELSE s1
      Keep(kept) == Drop(kept, AssignObjects(s, kept))
      Outside(t) == Keep(SelectSeq(s.objects, LAMBDA o : ~ hitObjectRadius(o, wx, wy, t)))
  IN  Outside(Over(I(s.brushSize * 3), s.cam.scale))


(***************************************************************************)
(* Pointer events.  An event e is [sx, sy, button, touch]: the position    *)
(* relative to the canvas area (evPos), the mouse button (-1 for a Touch,  *)
(* which has none), and whether it is a Touch object.                      *)
(***************************************************************************)
\* the object is left as it is
ObjectAssignNone(obj, snap) == obj

\* Object.assign(obj, snap)
ObjectAssign(obj, snap) ==
  [ f \in (DOMAIN obj) \cup (DOMAIN snap) |-> IF f \in DOMAIN snap THEN snap[f] ELSE obj[f] ]

\* an onDown whose pan test comes before the test of the text editor
onDownPanFirst(s, e) ==
  LET Drag(wPos, hitId, b) ==
        [ s EXCEPT !.selectedId = hitId, !.selIsSicky = FALSE, !.iState = "dragging",
                   !.moveOrigin = << [ mx |-> e.sx, my |-> e.sy,
                                       owx |-> Minus(wPos.x, b.x),
                                       owy |-> Minus(wPos.y, b.y) ] >> ]
      Pick(wPos, hitId) ==
        IF hitId # NoId
        THEN Drag(wPos, hitId, getBounds(getObjById(s.objects, hitId)[1]))
        ELSE [ s EXCEPT !.selectedId = NoId, !.iState = "idle" ]
      Grab(wPos, sel, h) ==
        IF h # ""
        THEN [ s EXCEPT !.iState = "resizing", !.resizeHandle = h,
                        !.resizeOrigin = << [ mx |-> e.sx, my |-> e.sy,
                                             snapshot |-> JsonValue(sel[1]) ] >> ]
        ELSE Pick(wPos, hitTest(s.cam, s.objects, wPos.x, wPos.y))
      Select(wPos, sel) ==
        Grab(wPos, sel, IF sel # << >> THEN hitHandle(s.cam, e.sx, e.sy, sel[1]) ELSE "")
      Press(wPos) ==
        IF s.spaceHeld \/ e.button = 1 \/ e.button = 2 \/ s.tool = "pan"
        THEN [ s EXCEPT !.iState = "panning",
                        !.panOrigin = << [ mx |-> e.sx, my |-> e.sy,
                                           cx |-> s.cam.x, cy |-> s.cam.y ] >> ]
        ELSE IF s.tool = "select"
        THEN Select(wPos, IF s.selectedId # NoId /\ ~ s.selIsSicky
                          THEN getObjById(s.objects, s.selectedId) ELSE << >>)
        ELSE IF s.tool = "eraser"
        THEN [ eraseAt(s, wPos.x, wPos.y) EXCEPT !.iState = "drawing" ]
        ELSE IF s.tool \in { "pen", "highlighter" }
        THEN [ s EXCEPT !.iState = "drawing",
                        !.liveStroke = << [ id |-> NoId, type |-> "stroke",
                                            points |-> << << wPos.x, wPos.y >> >>,
                                            color |-> s.color, width |-> I(s.brushSize),
                                            opacity |-> IF s.tool = "highlighter"
                                                        THEN Highlight ELSE One ] >> ]
        ELSE IF s.tool \in ShapeTools
        THEN [ s EXCEPT !.iState = "drawing",
                        !.drawOrigin = << [ wx |-> wPos.x, wy |-> wPos.y ] >>,
                        !.previewObj = makeShape(s, s.tool, wPos.x, wPos.y, wPos.x, wPos.y) ]
        ELSE IF s.tool = "text"
        THEN \* e.preventDefault(): a Touch has no such method, the call throws
             IF e.touch THEN s ELSE openTextEditor(s, << >>, wPos.x, wPos.y)
        ELSE s
  IN  IF s.textEditor # << >> /\ ~ (s.spaceHeld \/ e.button = 1 \/ e.button = 2 \/ s.tool = "pan")
      THEN commitTextEdit(s) ELSE Press(s2w(s.cam, e.sx, e.sy))

onDown(s, e) ==
  LET Drag(wPos, hitId, b) ==
        [ s EXCEPT !.selectedId = hitId, !.selIsSicky = FALSE, !.iState = "dragging",
                   !.moveOrigin = << [ mx |-> e.sx, my |-> e.sy,
                                       owx |-> Minus(wPos.x, b.x),
                                       owy |-> Minus(wPos.y, b.y) ] >> ]
      Pick(wPos, hitId) ==
        IF hitId # NoId
        THEN Drag(wPos, hitId, getBounds(getObjById(s.objects, hitId)[1]))
        ELSE [ s EXCEPT !.selectedId = NoId, !.iState = "idle" ]
      Grab(wPos, sel, h) ==
        IF h # ""
        THEN [ s EXCEPT !.iState = "resizing", !.resizeHandle = h,
                        !.resizeOrigin = << [ mx |-> e.sx, my |-> e.sy,
                                             snapshot |-> JsonValue(sel[1]) ] >> ]
        ELSE Pick(wPos, hitTest(s.cam, s.objects, wPos.x, wPos.y))
      Select(wPos, sel) ==
        Grab(wPos, sel, IF sel # << >> THEN hitHandle(s.cam, e.sx, e.sy, sel[1]) ELSE "")
      Press(wPos) ==
        IF s.spaceHeld \/ e.button = 1 \/ e.button = 2 \/ s.tool = "pan"
        THEN [ s EXCEPT !.iState = "panning",
                        !.panOrigin = << [ mx |-> e.sx, my |-> e.sy,
                                           cx |-> s.cam.x, cy |-> s.cam.y ] >> ]
        ELSE IF s.tool = "select"
        THEN Select(wPos, IF s.selectedId # NoId /\ ~ s.selIsSicky
                          THEN getObjById(s.objects, s.selectedId) ELSE << >>)
        ELSE IF s.tool = "eraser"
        THEN [ eraseAt(s, wPos.x, wPos.y) EXCEPT !.iState = "drawing" ]
        ELSE IF s.tool \in { "pen", "highlighter" }
        THEN [ s EXCEPT !.iState = "drawing",
                        !.liveStroke = << [ id |-> NoId, type |-> "stroke",
                                            points |-> << << wPos.x, wPos.y >> >>,
                                            color |-> s.color, width |-> I(s.brushSize),
                                            opacity |-> IF s.tool = "highlighter"
                                                        THEN Highlight ELSE One ] >> ]
        ELSE IF s.tool \in ShapeTools
        THEN [ s EXCEPT !.iState = "drawing",
                        !.drawOrigin = << [ wx |-> wPos.x, wy |-> wPos.y ] >>,
                        !.previewObj = makeShape(s, s.tool, wPos.x, wPos.y, wPos.x, wPos.y) ]
        ELSE IF s.tool = "text"
        THEN \* e.preventDefault(): a Touch has no such method, the call throws
             IF e.touch THEN s ELSE openTextEditor(s, << >>, wPos.x, wPos.y)
        ELSE s
  IN  IF s.textEditor # << >> THEN commitTextEdit(s) ELSE Press(s2w(s.cam, e.sx, e.sy))

\* a move that is ignored
onMoveStill(s, e) == s

onMove(s, e) ==
  LET Stroke(wPos, s1) ==
        IF s1.previewObj # << >> /\ s1.drawOrigin # << >>
        THEN [ s1 EXCEPT !.previewObj =
                 makeShape(s1, s1.tool, s1.drawOrigin[1].wx, s1.drawOrigin[1].wy,
                           wPos.x, wPos.y) ]
        ELSE s1
      Pan(po) ==
        WriteCam(s, [ s.cam EXCEPT !.x = Plus(po.cx, Minus(e.sx, po.mx)),
                                   !.y = Plus(po.cy, Minus(e.sy, po.my)) ])
      DragTo(obj, b, nwx, nwy) ==
        WriteObj(s, s.selectedId, moveObject(obj[1], Minus(nwx, b.x), Minus(nwy, b.y)))
      Drag(wPos, obj) ==
        IF obj = << >> THEN s
        ELSE DragTo(obj, getBounds(obj[1]), Minus(wPos.x, s.moveOrigin[1].owx),
                    Minus(wPos.y, s.moveOrigin[1].owy))
      ResizeBy(obj, ro) ==
        WriteObj(s, s.selectedId,
                 applyResize(ObjectAssign(obj[1], ro.snapshot), s.resizeHandle,
                             Over(Minus(e.sx, ro.mx), s.cam.scale),
                             Over(Minus(e.sy, ro.my), s.cam.scale)))
      Resize(obj) == IF obj = << >> THEN s ELSE ResizeBy(obj, s.resizeOrigin[1])
      At(wPos) ==
        IF s.iState = "panning" THEN Pan(s.panOrigin[1])
        ELSE IF s.iState = "drawing"
        THEN IF s.tool = "eraser" THEN eraseAt(s, wPos.x, wPos.y)
             ELSE Stroke(wPos,
                         IF s.liveStroke # << >>
                         THEN [ s EXCEPT !.liveStroke =
                                  << [ @[1] EXCEPT !.points = Append(@, << wPos.x, wPos.y >>) ] >> ]
                         ELSE s)
        ELSE IF s.iState = "dragging" THEN Drag(wPos, getObjById(s.objects, s.selectedId))
        ELSE IF s.iState = "resizing" THEN Resize(getObjById(s.objects, s.selectedId))
        ELSE s
  IN  At(s2w(s.cam, e.sx, e.sy))

\* the `drawing` branch of onUp: the state it leaves, and whether it threw.
\* pos is << >> when evPos(e) finds no touch to read (a touchend that lifts the
\* last finger has an empty e.touches) and << [sx, sy] >> otherwise.
onUpDrawing(s, pos) ==
  LET Added(s2, s3) ==
        [ st |-> setTool(pushHistory([ s3 EXCEPT !.objSeq = @ + 1, !.selectedId = s2.objSeq,
                                                 !.selIsSicky = FALSE, !.previewObj = << >>,
                                                 !.drawOrigin = << >> ]), "select"),
          threw |-> FALSE ]
      Final(s2, fin) ==
        IF fin = << >> THEN [ st |-> s2, threw |-> TRUE ]   \* fin.id = ... on undefined
        ELSE Added(s2, PushObj(s2, [ fin[1] EXCEPT !.id = s2.objSeq ]))
      Shape(s2, wp) ==
        Final(s2, makeShape(s2, s2.tool, s2.drawOrigin[1].wx, s2.drawOrigin[1].wy, wp.x, wp.y))
      Rest(s2) ==
        IF s2.previewObj # << >> /\ s2.drawOrigin # << >>
        THEN IF pos = << >> THEN [ st |-> s2, threw |-> TRUE ]
             ELSE Shape(s2, s2w(s2.cam, pos[1].sx, pos[1].sy))
        ELSE [ st |-> s2, threw |-> FALSE ]
      Stroke(ls) ==
        Rest([ (IF ls # << >> /\ Len(ls[1].points) >= 2
                THEN pushHistory([ PushObj(s, [ ls[1] EXCEPT !.id = s.objSeq ])
                                   EXCEPT !.objSeq = @ + 1 ])
                ELSE s)
               EXCEPT !.liveStroke = << >> ])
  IN  Stroke(s.liveStroke)

onUp(s, pos) ==
  LET After(d) ==
        IF d.threw THEN d.st
        ELSE [ (IF s.iState \in { "dragging", "resizing" } THEN pushHistory(d.st) ELSE d.st)
               EXCEPT !.iState = "idle" ]
  IN  IF s.iState = "panning" THEN [ s EXCEPT !.iState = "idle" ]
      ELSE After(IF s.iState = "drawing" THEN onUpDrawing(s, pos)
                 ELSE [ st |-> s, threw |-> FALSE ])

onLeave(s, pos) == IF s.iState # "idle" THEN onUp(s, pos) ELSE s

onDblClick(s, e) ==
  LET Edit(obj) ==
        IF obj # << >> /\ obj[1].type = "text"
        THEN openTextEditor(s, obj, obj[1].x, obj[1].y) ELSE s
      Hit(wPos, hitId) ==
        IF hitId # NoId THEN Edit(getObjById(s.objects, hitId))
        ELSE IF s.tool = "text" THEN openTextEditor(s, << >>, wPos.x, wPos.y) ELSE s
      At(wPos) == Hit(wPos, hitTest(s.cam, s.objects, wPos.x, wPos.y))
  IN  At(s2w(s.cam, e.sx, e.sy))

(***************************************************************************)
(* Zoom.  A factor is a rational, Infinity (d / 0 with d > 0) or NaN       *)
(* (0 / 0).  Math.min and Math.max return NaN when an argument is NaN, and *)
(* arithmetic on NaN gives NaN: a NaN factor makes the whole camera NaN.   *)
(***************************************************************************)
Infinity == << 1, 0 >>
NaN == << 0, 0 >>
IsNumber(r) == r[2] # 0

\* the camera move of applyZoom with the factor itself in place of ns / cam.scale
applyZoomByFactor(s, factor, sx, sy) ==
  LET Clamp(v) == MaxR(ScaleMin, MinR(ScaleMax, v))
      By(m, ns) == WriteCam(s, [ x |-> Minus(sx, Times(Minus(sx, s.cam.x), m)),
                                 y |-> Minus(sy, Times(Minus(sy, s.cam.y), m)),
                                 scale |-> ns ])
  IN  IF factor = NaN \/ ~ IsNumber(s.cam.scale)
      THEN WriteCam(s, [ x |-> NaN, y |-> NaN, scale |-> NaN ])
      ELSE IF factor = Infinity THEN By(Over(ScaleMax, s.cam.scale), ScaleMax)
      ELSE By(factor, Clamp(Times(s.cam.scale, factor)))

applyZoom(s, factor, sx, sy) ==
  LET Clamp(v) == MaxR(ScaleMin, MinR(ScaleMax, v))
      To(ns) == LET By(f) == WriteCam(s, [ x |-> Minus(sx, Times(Minus(sx, s.cam.x), f)),
                                           y |-> Minus(sy, Times(Minus(sy, s.cam.y), f)),
                                           scale |-> ns ])
                IN  By(Over(ns, s.cam.scale))
  IN  IF factor = NaN \/ ~ IsNumber(s.cam.scale)
      THEN WriteCam(s, [ x |-> NaN, y |-> NaN, scale |-> NaN ])
      ELSE IF factor = Infinity THEN To(ScaleMax)
      ELSE To(Clamp(Times(s.cam.scale, factor)))

WheelIn  == Rat(11, 10)
WheelOut == Rat(909, 1000)

onWheel(s, deltaY, sx, sy) == applyZoom(s, IF deltaY < 0 THEN WheelIn ELSE WheelOut, sx, sy)

\* n touches on the surface, e the first of them, d the distance of the first two
onTouchStart(s, n, e, d) ==
  IF n = 2 THEN [ s EXCEPT !.lastTouchDist = d ] ELSE onDown(s, e)

\* (mx, my) the midpoint of the first two touches
onTouchMove(s, n, e, d, mx, my) ==
  IF n = 2
  THEN [ applyZoom(s, IF s.lastTouchDist # Zero THEN Over(d, s.lastTouchDist)
                      ELSE IF d = Zero THEN NaN ELSE Infinity,
                   mx, my)
         EXCEPT !.lastTouchDist = d ]
  ELSE onMove(s, e)

\* onUp(e) with the TouchEvent itself: evPos reads e.touches[0], the first touch that
\* is still down, if there is one
onTouchEnd(s, pos) == onUp(s, pos)


(***************************************************************************)
(* Note cards.  stickyGrab is << >> or << g >>, the closure of a drag or   *)
(* resize in progress: g.live says whether the card object it captured is  *)
(* still the element of `stickies` with that id.                           *)
(***************************************************************************)
getStickyById(ns, id) ==
  LET hits == SelectSeq(ns, LAMBDA n : n.id = id)
  IN  IF hits = << >> THEN << >> ELSE << hits[1] >>

addSticky(s, wx, wy, colorIdx) ==
  LET n == [ id |-> s.stickySeq, x |-> wx, y |-> wy, w |-> I(190), h |-> I(150),
             text |-> "", colorIdx |-> colorIdx, zIdx |-> s.stickySeq + 1 ]
  IN  pushHistory(PushSticky([ s EXCEPT !.stickySeq = @ + 1 ], n))

\* the add-note button: the note is placed about the centre (vx, vy) of the canvas area
addStickyClick(s, vx, vy) ==
  LET wp == s2w(s.cam, vx, vy)
  IN  addSticky(s, Minus(wp.x, I(95)), Minus(wp.y, I(70)), 0)

deleteSticky(s, id) ==
  LET s1 == AssignStickies(s, SelectSeq(s.stickies, LAMBDA n : n.id # id))
      s2 == [ s1 EXCEPT !.stickyGrab = IF @ # << >> /\ @[1].id = id THEN Detach(@) ELSE @,
                        !.selectedId = IF @ = id THEN NoId ELSE @ ]
  IN  pushHistory(s2)

changeStickyColor(s, id, colorIdx) ==
  LET n == getStickyById(s.stickies, id)
  IN  IF n = << >> THEN s
      ELSE pushHistory(WriteSticky(s, id, [ n[1] EXCEPT !.colorIdx = colorIdx ]))

\* the card element's own mousedown listener
stickySelect(s, id) == [ s EXCEPT !.selectedId = id, !.selIsSicky = TRUE ]

\* the card's textarea input listener
stickyInput(s, id, text) ==
  LET n == getStickyById(s.stickies, id)
  IN  WriteSticky(s, id, [ n[1] EXCEPT !.text = text ])

\* (cx, cy) is the event's position relative to the canvas area
startStickyDrag(s, id, cx, cy) ==
  LET n == getStickyById(s.stickies, id)[1]
      offX == Minus(Minus(Over(cx, s.cam.scale), Over(s.cam.x, s.cam.scale)), n.x)
      offY == Minus(Minus(Over(cy, s.cam.scale), Over(s.cam.y, s.cam.scale)), n.y)
      s1 == WriteSticky(s, id, [ n EXCEPT !.zIdx = s.stickySeq ])
  IN  [ s1 EXCEPT !.stickySeq = @ + 1,
                  !.stickyGrab = << [ kind |-> "drag", id |-> id, live |-> TRUE,
                                      a |-> offX, b |-> offY, c |-> Zero, d |-> Zero ] >> ]

startStickyResize(s, id, cx, cy) ==
  LET n == getStickyById(s.stickies, id)[1]
  IN  [ s EXCEPT !.stickyGrab = << [ kind |-> "resize", id |-> id, live |-> TRUE,
                                     a |-> n.w, b |-> n.h, c |-> cx, d |-> cy ] >> ]

\* the document mousemove listener of the drag or resize in progress
stickyGrabMove(s, cx, cy) ==
  LET g == s.stickyGrab[1]
      n == getStickyById(s.stickies, g.id)
  IN  IF ~ g.live \/ n = << >> THEN s
      ELSE IF g.kind = "drag"
      THEN WriteSticky(s, g.id,
             [ n[1] EXCEPT
                 !.x = Minus(Minus(Over(cx, s.cam.scale), Over(s.cam.x, s.cam.scale)), g.a),
                 !.y = Minus(Minus(Over(cy, s.cam.scale), Over(s.cam.y, s.cam.scale)), g.b) ])
      ELSE WriteSticky(s, g.id,
             [ n[1] EXCEPT
                 !.w = MaxR(I(150), Plus(g.a, Over(Minus(cx, g.c), s.cam.scale))),
                 !.h = MaxR(I(110), Plus(g.b, Over(Minus(cy, g.d), s.cam.scale))) ])

\* the document mouseup listener: the listeners are removed, the edit is committed
stickyGrabUp(s) == pushHistory([ s EXCEPT !.stickyGrab = << >> ])

(***************************************************************************)
(* Toolbar and keyboard                                                    *)
(***************************************************************************)
setColor(s, c) ==
  LET s1 == [ s EXCEPT !.color = c ]
  IN  IF s1.selectedId # NoId
      THEN LET obj == getObjById(s1.objects, s1.selectedId)
           IN  IF obj # << >>
               THEN pushHistory(IF "color" \in DOMAIN obj[1]
                                THEN WriteObj(s1, s1.selectedId, [ obj[1] EXCEPT !.color = c ])
                                ELSE s1)
               ELSE s1
      ELSE s1

sizeInput(s, v) ==
  LET s1 == [ s EXCEPT !.brushSize = v ]
  IN  IF s1.selectedId # NoId
      THEN LET obj == getObjById(s1.objects, s1.selectedId)
           IN  IF obj # << >> /\ "width" \in DOMAIN obj[1]
               THEN pushHistory(WriteObj(s1, s1.selectedId, [ obj[1] EXCEPT !.width = I(v) ]))
               ELSE s1
      ELSE s1

IdentityCam == [ x |-> Zero, y |-> Zero, scale |-> One ]

\* a clear that leaves the camera where it is
clearBoardKeepView(s, confirmed) ==
  IF ~ confirmed THEN s
  ELSE LET s1 == AssignStickies(AssignObjects(s, << >>), << >>)
           s2 == [ s1 EXCEPT !.selectedId = NoId, !.stickyGrab = Detach(@) ]
       IN  pushHistory(s2)

\* the clear button, after the confirm dialog
clearBoard(s, confirmed) ==
  IF ~ confirmed THEN s
  ELSE LET s1 == AssignStickies(AssignObjects(s, << >>), << >>)
           s2 == AssignCam([ s1 EXCEPT !.selectedId = NoId, !.stickyGrab = Detach(@) ],
                           IdentityCam)
       IN  pushHistory(s2)

deleteSelected(s) ==
  IF s.selectedId = NoId THEN s
  ELSE IF s.selIsSicky THEN deleteSticky(s, s.selectedId)
  ELSE pushHistory([ AssignObjects(s, SelectSeq(s.objects, LAMBDA o : o.id # s.selectedId))
                     EXCEPT !.selectedId = NoId ])

closeWB(s) == [ cancelTextEdit(s) EXCEPT !.isOpen = FALSE ]

\* tmap: the tools of the tool keys
ToolKeys == [ v |-> "select", p |-> "pen", h |-> "highlighter", e |-> "eraser",
              l |-> "line", r |-> "rect", c |-> "circle", t |-> "text" ]

\* the keydown listener of the document.  e.key is the key in lower case, e.mod is
\* ctrlKey || metaKey, e.inField says that a textarea or an input has the focus;
\* (vx, vy) is the centre of the canvas area, where the note button puts a card.
\* saveToStorage and exportPNG change nothing of the state.
onKeyDown(s, e, vx, vy) ==
  IF ~ s.isOpen THEN s
  ELSE IF e.inField THEN s
  ELSE IF e.key = " " THEN [ s EXCEPT !.spaceHeld = TRUE ]
  ELSE IF e.key = "escape" THEN closeWB(s)
  ELSE IF e.mod
  THEN IF e.key = "z" /\ ~ e.shift THEN undo(s)
       ELSE IF e.key \in { "z", "y" } THEN redo(s)
       ELSE s
  ELSE IF e.key \in DOMAIN ToolKeys THEN setTool(s, ToolKeys[e.key])
  ELSE IF e.key = "n" THEN addStickyClick(s, vx, vy)
  ELSE LET s1 == IF e.key \in { "delete", "backspace" } THEN deleteSelected(s) ELSE s
       IN  IF e.key = "0" /\ e.mod THEN AssignCam(s1, IdentityCam) ELSE s1

MaxId(seq) ==
  IF seq = << >> THEN 0
  ELSE LET ids == { seq[i].id : i \in 1..Len(seq) } \cup { 0 }
       IN  CHOOSE m \in ids : \A k \in ids : k <= m

\* d is << >> (nothing stored) or << payload >>, what JSON.parse returned; a field of
\* the payload that is missing is the empty tuple
loadFromStorage(s, d) ==
  LET Objects(p, x)  == IF p.objects # << >> THEN AssignObjects(x, p.objects[1]) ELSE x
      Stickies(p, x) == IF p.stickies # << >> THEN AssignStickies(x, p.stickies[1]) ELSE x
      Cam(p, x)      == IF p.cam # << >> THEN WriteCam(x, p.cam[1]) ELSE x
      Color(p, x)    == IF p.color # << >> THEN setColor(x, p.color[1]) ELSE x
      Brush(p, x)    == IF p.brushSize # << >> THEN [ x EXCEPT !.brushSize = p.brushSize[1] ] ELSE x
      Tool(p, x)     == IF p.tool # << >> THEN setTool(x, p.tool[1]) ELSE x
      StickySeq(x)   == IF x.stickies # << >>
                        THEN [ x EXCEPT !.stickySeq = MaxId(x.stickies) + 1 ] ELSE x
      ObjSeq(x)      == IF x.objects # << >> THEN [ x EXCEPT !.objSeq = MaxId(x.objects) + 1 ] ELSE x
      Load(p) == pushHistory(ObjSeq(StickySeq(
                   Tool(p, Brush(p, Color(p, Cam(p, Stickies(p, Objects(p, s)))))))))
  IN  IF d = << >> THEN s ELSE Load(d[1])

\* openWB, with the body of its 40 ms timer
openWB(s, d) ==
  LET Loaded(s2) == IF Len(s2.history) = 0 THEN pushHistory(s2) ELSE s2
  IN  IF ~ s.initialized
      THEN Loaded(loadFromStorage(
                    setTool([ s EXCEPT !.isOpen = TRUE, !.initialized = TRUE ], "select"), d))
      ELSE [ s EXCEPT !.isOpen = TRUE ]


(***************************************************************************)
(* The environment: the events a user can cause, with small input sets.    *)
(* A pointer event is aimed at a world point of Pts: its screen position   *)
(* is that point under the camera of the moment.  openWB's initialization  *)
(* runs in a 40 ms timer; no event reaches the board before it has run.     *)
(***************************************************************************)
MaxDepth     == 2    \* history entries, where the edits are varied
MaxObjSeq    == 2    \* objSeq stays <= this
MaxStickySeq == 2    \* stickySeq stays <= this, where the edits are varied
MaxPts       == 2    \* points of a stroke
MaxZooms     == 1    \* wheel and pinch steps
MaxOdd       == 1    \* events that arrive while a gesture is under way
MaxCoord     == 60   \* |coordinate| of an object or the camera offset
MaxNoteCoord == 400  \* |coordinate| of a note card
MaxDeepSeq   == 32   \* stickySeq stays <= this in the long runs of note-card edits
MaxCutLen    == 6    \* in the long runs, the history is this short when undo, redo and
                     \* edits are interleaved otherwise than as edits, undos, redos,
MaxCuts      == 1    \* an edit follows an undo this often,
MaxClearLen  == 2    \* and the board is cleared only in a history this short
MaxCamSteps  == 2    \* wheel, pinch and pan moves, where the camera is followed
MaxCamCoord  == 800  \* |camera offset|, where the camera is followed
MaxCalls     == 3    \* schedRender calls between two frames
MaxDenom     == 22   \* denominators of the numbers whose squares are compared
MaxEvents    == 6    \* events of a run, where edits and camera gestures are mixed

Pts == { << 0, 0 >>, << 40, 40 >> }
Tools == { "select", "pen", "eraser", "rect", "text" }
Colors == { "#2563EB", "#EF4444" }
Sizes == { 4, 6 }
Typed == { << "a" >>, << " " >> }
\* the centre of the canvas area, 600 by 400 pixels
ViewCentre == << I(300), I(200) >>

StoredRect == [ id |-> 1, type |-> "rect", x |-> Zero, y |-> Zero, w |-> I(40), h |-> I(40),
                color |-> "#2563EB", width |-> I(4) ]
StoredNote == [ id |-> 1, x |-> I(205), y |-> I(130), w |-> I(190), h |-> I(150),
                text |-> "", colorIdx |-> 0, zIdx |-> 1 ]
\* what an earlier session of this program left in localStorage
Stored == { << >>,
            << [ objects |-> << << StoredRect >> >>, stickies |-> << << StoredNote >> >>,
                 cam |-> << IdentityCam >>, color |-> << "#2563EB" >>,
                 brushSize |-> << 4 >>, tool |-> << "select" >> ] >> }

EvAt(W, button, touch) ==
  LET p == w2s(cam, I(W[1]), I(W[2]))
  IN  [ sx |-> p.x, sy |-> p.y, button |-> button, touch |-> touch ]

PosAt(W) == LET p == w2s(cam, I(W[1]), I(W[2])) IN << [ sx |-> p.x, sy |-> p.y ] >>

\* a note card lies over the world point W: a press there goes to the card
Covered(W) ==
  \E i \in 1..Len(stickies) :
     /\ LessEq(stickies[i].x, I(W[1])) /\ LessEq(I(W[1]), Plus(stickies[i].x, stickies[i].w))
     /\ LessEq(stickies[i].y, I(W[2])) /\ LessEq(I(W[2]), Plus(stickies[i].y, stickies[i].h))

\* a press on the corner of the body of note card n
EvNote(n) ==
  LET At(p) == [ sx |-> p.x, sy |-> p.y, button |-> 0, touch |-> FALSE ]
  IN  At(w2s(cam, n.x, n.y))

Small(r) == LessEq(AbsR(r), I(MaxCoord))

ObjSmall(o) ==
  CASE o.type = "stroke" ->
         /\ Len(o.points) <= MaxPts
         /\ \A i \in 1..Len(o.points) : Small(o.points[i][1]) /\ Small(o.points[i][2])
    [] o.type = "line" -> Small(o.x1) /\ Small(o.y1) /\ Small(o.x2) /\ Small(o.y2)
    [] o.type = "rect" -> Small(o.x) /\ Small(o.y) /\ Small(o.w) /\ Small(o.h)
    [] o.type = "circle" -> Small(o.cx) /\ Small(o.cy) /\ Small(o.rx) /\ Small(o.ry)
    [] OTHER -> Small(o.x) /\ Small(o.y)

\* the bounds of the model: a step that would leave them is not taken
Within(s) ==
  /\ \A i \in 1..Len(s.objects) : ObjSmall(s.objects[i])
  /\ \A i \in 1..Len(s.stickies) :
        /\ LessEq(AbsR(s.stickies[i].x), I(MaxNoteCoord))
        /\ LessEq(AbsR(s.stickies[i].y), I(MaxNoteCoord))
  /\ s.liveStroke # << >> => Len(s.liveStroke[1].points) <= MaxPts
  /\ Small(s.cam.x) /\ Small(s.cam.y)

Bounded(s) == s.objSeq <= MaxObjSeq /\ Within(s)

Ready == isOpen /\ initialized
\* keyboard shortcuts are ignored while a textarea has the focus
KeysLive == Ready /\ textEditor = << >>

\* objects and note cards, the scene that undo and redo restore
Scene(s) == [ objects |-> s.objects, stickies |-> s.stickies ]

\* env is not program state.  It remembers what the properties below speak of:
\* last (what the last step did), the counters zooms, odd and cuts that bound a
\* run, and the course of a round trip: phase "edit" (n edits committed since
\* initialization and nothing else), "undo" and "redo" (k calls made), "mixed"
\* (anything else); first and final are the scenes before and after the edits.
Init ==
  /\ objects = << >> /\ stickies = << >> /\ objSeq = 1 /\ stickySeq = 1
  /\ cam = IdentityCam
  /\ tool = "select" /\ color = "#2563EB" /\ brushSize = 4
  /\ selectedId = NoId /\ selIsSicky = FALSE
  /\ iState = "idle" /\ panOrigin = << >> /\ drawOrigin = << >> /\ liveStroke = << >>
  /\ previewObj = << >> /\ moveOrigin = << >> /\ resizeHandle = "" /\ resizeOrigin = << >>
  /\ spaceHeld = FALSE
  /\ textEditor = << >> /\ editingId = NoId
  /\ history = << >> /\ histIdx = -1
  /\ initialized = FALSE /\ isOpen = FALSE
  /\ lastTouchDist = Zero
  /\ stickyGrab = << >>
  /\ rafPending = FALSE /\ rafQueue = 0
  /\ editorEl = 0 /\ blurTimers = {}
  /\ env = [ last |-> "other", zooms |-> 0, camSteps |-> 0, calls |-> 0, events |-> 0, odd |-> 0, cuts |-> 0,
             fingers |-> 0,
             phase |-> "edit", n |-> 0, k |-> 0, first |-> << >>, final |-> << >> ]

\* rafPending is read and written by schedRender and render only, and the render
\* callback changes nothing else: the specifications that are not about rendering
\* leave the two render variables alone, SpecRender follows them.
\* no textarea is created and no blur timer is set or run
NoTimer == UNCHANGED << editorEl, blurTimers >>
NoRender == UNCHANGED << rafPending, rafQueue >> /\ NoTimer

\* the step to s removes the selected object or note card from the scene
Gone(s) ==
  /\ selectedId # NoId
  /\ IF selIsSicky
     THEN getStickyById(stickies, selectedId) # << >>
          /\ getStickyById(s.stickies, selectedId) = << >>
     ELSE getObjById(objects, selectedId) # << >> /\ getObjById(s.objects, selectedId) = << >>

\* What the last step did, as far as the properties below need to know: "undo" or
\* "redo" (the handler ran), "gone" (the selected entity was removed), "cancel"
\* (a text-edit session was cancelled), "cut" (a push discarded redo entries),
\* "press" (a press on the canvas while the text editor was open), "other".
Tag(op, s) ==
  CASE op \in { "undo", "redo" } -> op
    [] Gone(s) -> "gone"
    [] op \in { "tool", "escape", "close" } /\ textEditor # << >> -> "cancel"
    [] s.history # history /\ histIdx < Len(history) - 1 -> "cut"
    [] op = "down" /\ textEditor # << >> -> "press"
    [] OTHER -> "other"

\* panOrigin, moveOrigin, resizeOrigin and resizeHandle are written by onDown on
\* every entry to their gesture and read by onMove only during it, so what they
\* hold outside the gesture is never read: states that differ only there are one
\* state of the model.
Forget(s) ==
  [ s EXCEPT !.panOrigin    = IF s.iState = "panning" THEN @ ELSE << >>,
             !.moveOrigin   = IF s.iState = "dragging" THEN @ ELSE << >>,
             !.resizeOrigin = IF s.iState = "resizing" THEN @ ELSE << >>,
             !.resizeHandle = IF s.iState = "resizing" THEN @ ELSE "" ]

\* An event is out of order when it is not a move or a release and arrives while
\* a gesture on the canvas or a note-card grab is under way (a key or a toolbar
\* button during a drag, a second button or finger). The environment causes at
\* most MaxOdd of them in a run.
OutOfOrder(op) ==
  /\ iState # "idle" \/ stickyGrab # << >>
  /\ op \notin { "move", "up", "movenote", "dropnote" }

\* one step of the program to state s, caused by the event named op
Go(op, s) ==
  /\ OutOfOrder(op) => env.odd < MaxOdd
  /\ Bounded(s)
  /\ s.stickySeq <= MaxStickySeq
  /\ Len(s.history) <= MaxDepth
  /\ Becomes(Forget(s)) /\ NoRender
  /\ env' = [ env EXCEPT !.last = Tag(op, s),
                         !.odd = IF OutOfOrder(op) THEN @ + 1 ELSE @ ]

\* a step that zooms
Zoomed(op, s) ==
  /\ env.zooms < MaxZooms
  /\ Bounded(s)
  /\ OutOfOrder(op) => env.odd < MaxOdd
  /\ Becomes(Forget(s)) /\ NoRender
  /\ env' = [ env EXCEPT !.last = "other", !.zooms = @ + 1,
                         !.odd = IF OutOfOrder(op) THEN @ + 1 ELSE @ ]

\* the overlay is opened; the first time, the board is initialized from storage
Open ==
  /\ ~ isOpen
  /\ \E d \in Stored :
       LET To(s) ==
             /\ Bounded(s)
             /\ Becomes(s) /\ NoRender
             /\ env' = IF initialized THEN [ env EXCEPT !.last = "other" ]
                       ELSE [ env EXCEPT !.last = "other", !.first = << Scene(s) >> ]
       IN  (initialized => d = << >>) /\ To(openWB(S, d))
Close == Ready /\ Go("close", closeWB(S))

MouseDown == Ready /\ \E W \in Pts : ~ Covered(W) /\ Go("down", onDown(S, EvAt(W, 0, FALSE)))
\* a press of the middle or the right button
PanDown == Ready /\ \E W \in Pts, b \in { 1, 2 } : ~ Covered(W) /\ Go("down", onDown(S, EvAt(W, b, FALSE)))
MouseMove == Ready /\ \E W \in Pts : Go("move", onMove(S, EvAt(W, 0, FALSE)))
MouseUp == Ready /\ \E W \in Pts : Go("up", onUp(S, PosAt(W)))
MouseLeave == Ready /\ \E W \in Pts : Go("up", onLeave(S, PosAt(W)))
DblClick == Ready /\ \E W \in Pts : ~ Covered(W) /\ Go("dblclick", onDblClick(S, EvAt(W, 0, FALSE)))
Wheel == Ready /\ \E W \in Pts, dy \in { -1, 1 } :
            LET p == PosAt(W)[1] IN Zoomed("wheel", onWheel(S, dy, p.sx, p.sy))

\* a finger is put down: it is the only one on the surface, or the third
TouchStart == Ready /\ \E n \in { 1, 3 }, W \in Pts :
                ~ Covered(W) /\ Go("down", onTouchStart(S, n, EvAt(W, -1, TRUE), Zero))
\* a second finger is put down, at distance d from the first
PinchStart == Ready /\ \E d \in { I(40) }, W \in Pts :
                ~ Covered(W) /\ Go("pinchstart", onTouchStart(S, 2, EvAt(W, -1, TRUE), d))
TouchMove == Ready /\ \E W \in Pts :
               Go("move", onTouchMove(S, 1, EvAt(W, -1, TRUE), Zero, Zero, Zero))
Pinch == Ready /\ \E d \in { I(20), I(80) }, W \in Pts :
            LET p == PosAt(W)[1]
            IN  Zoomed("pinch", onTouchMove(S, 2, EvAt(W, -1, TRUE), d, p.sx, p.sy))
\* a finger is lifted: the last one (no touch left to read) or not
TouchEnd == Ready /\ \E pos \in { << >> } \cup { PosAt(W) : W \in Pts } :
              Go("up", onTouchEnd(S, pos))

SpaceDown == KeysLive /\ Go("key", [ S EXCEPT !.spaceHeld = TRUE ])
SpaceUp == Go("key", [ S EXCEPT !.spaceHeld = FALSE ])
PickTool == Ready /\ \E t \in Tools : Go("tool", setTool(S, t))
PickColor == Ready /\ \E c \in Colors : Go("color", setColor(S, c))
PickSize == Ready /\ \E v \in Sizes : Go("size", sizeInput(S, v))
Undo == Ready /\ Go("undo", undo(S))
Redo == Ready /\ Go("redo", redo(S))
Clear == Ready /\ \E ok \in BOOLEAN : Go("clear", clearBoard(S, ok))
Delete == KeysLive /\ Go("delete", deleteSelected(S))

Type == Ready /\ textEditor # << >> /\ \E v \in Typed :
          Go("type", [ S EXCEPT !.textEditor = << [ @[1] EXCEPT !.value = v ] >> ])
TextEscape == Ready /\ textEditor # << >> /\ Go("escape", cancelTextEdit(S))
TextEnter == Ready /\ textEditor # << >> /\ Go("enter", commitTextEdit(S))

StickyIds == { stickies[i].id : i \in 1..Len(stickies) }

AddNote == Ready /\ Go("addnote", addStickyClick(S, ViewCentre[1], ViewCentre[2]))
DeleteNote == Ready /\ \E id \in StickyIds : Go("delnote", deleteSticky(S, id))
RecolorNote == Ready /\ \E id \in StickyIds : Go("notecolor", changeStickyColor(S, id, 1))
\* a press on the body of a note card: the card's own listener, then onDown if the
\* event bubbles to the canvas area (the header, the textarea and the resize grip
\* stop it, the body does not; whether the canvas area is an ancestor of the note
\* layer is the page's markup, which the script does not decide)
PressNote == Ready /\ \E i \in 1..Len(stickies), bubbles \in BOOLEAN :
               Go("down", IF bubbles
                          THEN onDown(stickySelect(S, stickies[i].id), EvNote(stickies[i]))
                          ELSE stickySelect(S, stickies[i].id))
TypeNote == Ready /\ \E id \in StickyIds, v \in { "", "hi" } : Go("typenote", stickyInput(S, id, v))
GrabNote == Ready /\ stickyGrab = << >> /\ \E id \in StickyIds, W \in Pts, k \in { "drag", "resize" } :
              LET p == PosAt(W)[1]
              IN  Go("grabnote", IF k = "drag" THEN startStickyDrag(S, id, p.sx, p.sy)
                                 ELSE startStickyResize(S, id, p.sx, p.sy))
MoveNote == stickyGrab # << >> /\ \E W \in Pts :
              LET p == PosAt(W)[1] IN Go("movenote", stickyGrabMove(S, p.sx, p.sy))
DropNote == stickyGrab # << >> /\ Go("dropnote", stickyGrabUp(S))

(***************************************************************************)
(* Spec: mouse, touch, keyboard and toolbar on a board of at most one      *)
(* drawn object and one note card, in any order.                           *)
(***************************************************************************)
Next ==
  \/ Open
  \/ MouseDown \/ MouseMove \/ MouseUp \/ MouseLeave \/ DblClick
  \/ TouchStart \/ TouchEnd
  \/ PickTool \/ Undo \/ Redo \/ Clear \/ Delete
  \/ Type \/ TextEscape \/ TextEnter
  \/ AddNote \/ DeleteNote \/ PressNote

Spec == Init /\ [][Next]_vars

(***************************************************************************)
(* SpecDeep: long runs of note-card edits, undo and redo, long enough for  *)
(* the history to reach MAX_HIST.  A run is N edits, then undos, then      *)
(* redos; env.phase, env.n and env.k count them, env.first and env.final   *)
(* hold the scene before and after the edits.  Any other interleaving      *)
(* (phase "mixed") is followed in short histories only.  To keep the       *)
(* histories few, a card is added only to a scene without cards.           *)
(***************************************************************************)
Mixed == [ env EXCEPT !.phase = "mixed", !.n = 0, !.k = 0, !.final = << >> ]

Trip(op, s) ==
  CASE op = "undo" ->
         IF env.phase = "edit" /\ env.n > 0
         THEN [ env EXCEPT !.phase = "undo", !.k = 1, !.final = << Scene(S) >> ]
         ELSE IF env.phase = "undo" /\ env.k < env.n THEN [ env EXCEPT !.k = @ + 1 ]
         ELSE Mixed
    [] op = "redo" ->
         IF env.phase = "undo" /\ env.k = env.n THEN [ env EXCEPT !.phase = "redo", !.k = 1 ]
         ELSE IF env.phase = "redo" /\ env.k < env.n THEN [ env EXCEPT !.k = @ + 1 ]
         ELSE Mixed
    [] OTHER -> IF env.phase = "edit" THEN [ env EXCEPT !.n = @ + 1 ] ELSE Mixed

IsCut(s) == s.history # history /\ histIdx < Len(history) - 1

Deep(op, s) ==
  /\ s.stickySeq <= MaxDeepSeq
  /\ IsCut(s) => env.cuts < MaxCuts
  /\ Trip(op, s).phase = "mixed" => Len(history) <= MaxCutLen
  /\ Becomes(Forget(s)) /\ NoRender
  /\ env' = [ Trip(op, s) EXCEPT !.last = Tag(op, s),
                                 !.cuts = IF IsCut(s) THEN @ + 1 ELSE @ ]

DeepAdd == Ready /\ stickies = << >> /\ Deep("edit", addStickyClick(S, ViewCentre[1], ViewCentre[2]))
DeepDelete == Ready /\ \E id \in StickyIds : Deep("edit", deleteSticky(S, id))
DeepClear == Ready /\ (objects # << >> \/ stickies # << >>) /\ Len(history) <= MaxClearLen
               /\ Deep("edit", clearBoard(S, TRUE))
DeepUndo == Ready /\ Deep("undo", undo(S))
DeepRedo == Ready /\ Deep("redo", redo(S))

NextDeep == Open \/ DeepAdd \/ DeepDelete \/ DeepClear \/ DeepUndo \/ DeepRedo

SpecDeep == Init /\ [][NextDeep]_vars

(***************************************************************************)
(* SpecPress: pointer presses that overlap.  The board is opened on a      *)
(* stored scene of two rectangles and a note card, and is worked with the  *)
(* select and the text tool: left and right button, moves, releases,      *)
(* presses on the card, the tool keys.  No object is added; one more event *)
(* than elsewhere may arrive while a gesture is under way.                 *)
(***************************************************************************)
StoredSquare == [ id |-> 2, type |-> "rect", x |-> I(40), y |-> I(40), w |-> I(20), h |-> I(20),
                  color |-> "#EF4444", width |-> I(4) ]
StoredTwo == << [ objects |-> << << StoredRect, StoredSquare >> >>,
                  stickies |-> << << StoredNote >> >>,
                  cam |-> << IdentityCam >>, color |-> << "#2563EB" >>,
                  brushSize |-> << 4 >>, tool |-> << "select" >> ] >>

Press(op, s) ==
  /\ OutOfOrder(op) => env.odd < MaxOdd + 1
  /\ Within(s)
  /\ s.objSeq <= MaxObjSeq + 1
  /\ Len(s.history) <= MaxDepth
  /\ Becomes(Forget(s)) /\ NoRender
  /\ env' = [ env EXCEPT !.last = Tag(op, s),
                         !.odd = IF OutOfOrder(op) THEN @ + 1 ELSE @ ]

OpenTwo == ~ isOpen /\ ~ initialized /\ Press("open", openWB(S, StoredTwo))
PressLeft == Ready /\ \E W \in Pts : ~ Covered(W) /\ Press("down", onDown(S, EvAt(W, 0, FALSE)))
PressRight == Ready /\ \E W \in Pts : ~ Covered(W) /\ Press("down", onDown(S, EvAt(W, 2, FALSE)))
PressMove == Ready /\ \E W \in Pts : Press("move", onMove(S, EvAt(W, 0, FALSE)))
PressUp == Ready /\ \E W \in Pts : Press("up", onUp(S, PosAt(W)))
PressCard == Ready /\ \E i \in 1..Len(stickies), bubbles \in BOOLEAN, b \in { 0, 2 } :
               Press("down", IF bubbles
                             THEN onDown(stickySelect(S, stickies[i].id),
                                         [ EvNote(stickies[i]) EXCEPT !.button = b ])
                             ELSE stickySelect(S, stickies[i].id))

PressKey == KeysLive /\ \E k \in { "select", "text" } : Press("tool", setTool(S, k))

NextPress ==
  OpenTwo \/ PressLeft \/ PressRight \/ PressMove \/ PressUp \/ PressCard \/ PressKey

SpecPress == Init /\ [][NextPress]_vars

(***************************************************************************)
(* SpecZoom: the camera.  Wheel steps, two-finger moves (the fingers 0, 1  *)
(* or 40 pixels apart, so that the scale reaches both clamps), panning     *)
(* with the right button, and what resets or restores the camera: the      *)
(* board cleared, undo, redo.  A run is not followed beyond a camera that  *)
(* is not a number.                                                        *)
(***************************************************************************)
PinchDists == { Zero, One, I(40) }

Zoom(op, s) ==
  /\ LessEq(AbsR(s.cam.x), I(MaxCamCoord)) /\ LessEq(AbsR(s.cam.y), I(MaxCamCoord))
  /\ Len(s.history) <= MaxDepth
  /\ op = "wheel" => env.zooms < MaxZooms
  /\ op \in { "wheel", "pinch", "move" } => env.camSteps < MaxCamSteps
  /\ Becomes(Forget(s)) /\ NoRender
  /\ env' = [ env EXCEPT !.last = IF op \in { "wheel", "pinch" } THEN "zoom" ELSE Tag(op, s),
                         !.zooms = IF op = "wheel" THEN @ + 1 ELSE @,
                         !.camSteps = IF op \in { "wheel", "pinch", "move" } THEN @ + 1 ELSE @ ]

CamLive == Ready /\ IsNumber(cam.scale)

ZoomWheel == CamLive /\ \E W \in Pts, dy \in { -1, 1 } :
               LET p == PosAt(W)[1] IN Zoom("wheel", onWheel(S, dy, p.sx, p.sy))
ZoomPinchStart == CamLive /\ \E d \in PinchDists, W \in Pts :
                    Zoom("pinchstart", onTouchStart(S, 2, EvAt(W, -1, TRUE), d))
ZoomPinch == CamLive /\ \E d \in PinchDists, W \in Pts :
               LET p == PosAt(W)[1]
               IN  Zoom("pinch", onTouchMove(S, 2, EvAt(W, -1, TRUE), d, p.sx, p.sy))
ZoomPanDown == CamLive /\ iState = "idle" /\ \E W \in Pts :
                 ~ Covered(W) /\ Zoom("down", onDown(S, EvAt(W, 2, FALSE)))
ZoomPanMove == CamLive /\ iState = "panning" /\ \E W \in Pts :
                 Zoom("move", onMove(S, EvAt(W, 2, FALSE)))
ZoomPanUp == CamLive /\ iState = "panning" /\ \E W \in Pts : Zoom("up", onUp(S, PosAt(W)))
ZoomClear == CamLive /\ Zoom("clear", clearBoard(S, TRUE))
ZoomUndo == CamLive /\ Zoom("undo", undo(S))
ZoomRedo == CamLive /\ Zoom("redo", redo(S))

NextZoom ==
  \/ Open
  \/ ZoomWheel \/ ZoomPinchStart \/ ZoomPinch
  \/ ZoomPanDown \/ ZoomPanMove \/ ZoomPanUp
  \/ ZoomClear \/ ZoomUndo \/ ZoomRedo

SpecZoom == Init /\ [][NextZoom]_vars

(***************************************************************************)
(* SpecPick: picking under zoom.  The board is opened on a stored line of  *)
(* width 4 from (0,0) to (40,0); two fingers 10 or 40 pixels apart zoom by *)
(* 4, 1/4 or 1 about the origin; the select tool presses on the line, 5    *)
(* and 20 world units off it, drags and releases.                          *)
(***************************************************************************)
StoredLine == [ id |-> 1, type |-> "line", x1 |-> Zero, y1 |-> Zero, x2 |-> I(40), y2 |-> Zero,
                color |-> "#2563EB", width |-> I(4) ]
StoredPick == << [ objects |-> << << StoredLine >> >>, stickies |-> << << >> >>,
                   cam |-> << IdentityCam >>, color |-> << "#2563EB" >>,
                   brushSize |-> << 4 >>, tool |-> << "select" >> ] >>
OffLine == << 20, 5 >>
PickPts == { OffLine, << 20, 0 >>, << 20, 20 >> }
PickDists == { I(10), I(40) }

Pick(op, s) ==
  /\ Within(s)
  /\ Len(s.history) <= MaxDepth
  /\ op = "pinch" => env.camSteps < MaxCamSteps
  /\ Becomes(Forget(s)) /\ NoRender
  /\ env' = [ env EXCEPT !.last = IF op = "pick" THEN op ELSE Tag(op, s),
                         !.camSteps = IF op = "pinch" THEN @ + 1 ELSE @ ]

OpenPick == ~ isOpen /\ ~ initialized /\ Pick("open", openWB(S, StoredPick))
PickPinchStart == Ready /\ iState = "idle" /\ \E d \in PickDists :
                    Pick("pinchstart", onTouchStart(S, 2, EvAt(<< 0, 0 >>, -1, TRUE), d))
PickPinch == Ready /\ iState = "idle" /\ lastTouchDist # Zero /\ \E d \in PickDists :
               Pick("pinch", onTouchMove(S, 2, EvAt(<< 0, 0 >>, -1, TRUE), d, Zero, Zero))
PickDown == Ready /\ iState = "idle" /\ \E W \in PickPts :
              Pick(IF W = OffLine THEN "pick" ELSE "down", onDown(S, EvAt(W, 0, FALSE)))
PickMove == Ready /\ iState # "idle" /\ \E W \in PickPts : Pick("move", onMove(S, EvAt(W, 0, FALSE)))
PickUp == Ready /\ iState # "idle" /\ \E W \in PickPts : Pick("up", onUp(S, PosAt(W)))

NextPick == OpenPick \/ PickPinchStart \/ PickPinch \/ PickDown \/ PickMove \/ PickUp

SpecPick == Init /\ [][NextPick]_vars

(***************************************************************************)
(* SpecHandle: lines and rectangles are drawn on an empty board, in either *)
(* direction and as small as 10 units, then picked and resized by their    *)
(* handles with the select tool.                                           *)
(***************************************************************************)
HandlePts == { << 0, 0 >>, << 10, 10 >>, << 40, 40 >> }
HandleTools == { "select", "line", "rect" }

Handle(op, s) ==
  /\ OutOfOrder(op) => env.odd < MaxOdd
  /\ Bounded(s)
  /\ Len(s.history) <= MaxDepth + 1
  /\ Becomes(Forget(s)) /\ NoRender
  /\ env' = [ env EXCEPT !.last = Tag(op, s),
                         !.odd = IF OutOfOrder(op) THEN @ + 1 ELSE @ ]

OpenHandle == ~ isOpen /\ ~ initialized /\ Handle("open", openWB(S, << >>))
HandleTool == Ready /\ \E t \in HandleTools : Handle("tool", setTool(S, t))
HandleDown == Ready /\ \E W \in HandlePts : Handle("down", onDown(S, EvAt(W, 0, FALSE)))
HandleMove == Ready /\ \E W \in HandlePts : Handle("move", onMove(S, EvAt(W, 0, FALSE)))
HandleUp == Ready /\ \E W \in HandlePts : Handle("up", onUp(S, PosAt(W)))

NextHandle == OpenHandle \/ HandleTool \/ HandleDown \/ HandleMove \/ HandleUp

SpecHandle == Init /\ [][NextHandle]_vars

(***************************************************************************)
(* SpecTouch: one and two fingers on the canvas.  A finger is put down     *)
(* with the select tool, the pen, the eraser or the rect tool, a second    *)
(* one joins it (or both arrive in one touchstart), the two are moved      *)
(* apart or together, and they are lifted one after the other.             *)
(* env.fingers is the number of fingers on the surface.                    *)
(***************************************************************************)
TouchTools == { "select", "pen", "eraser", "rect" }
TouchDists == { I(20), I(80) }

Touch(op, s, n) ==
  /\ env.events < MaxEvents + 2
  /\ op = "pinch" => env.zooms < MaxZooms
  /\ Bounded(s)
  /\ Len(s.history) <= MaxDepth + 1
  /\ Becomes(Forget(s)) /\ NoRender
  /\ env' = [ env EXCEPT !.last = Tag(op, s), !.events = @ + 1, !.fingers = n,
                         !.zooms = IF op = "pinch" THEN @ + 1 ELSE @ ]

OpenTouch == ~ isOpen /\ ~ initialized /\ \E d \in Stored : Touch("open", openWB(S, d), 0)
TouchTool == Ready /\ env.fingers = 0 /\ \E t \in TouchTools : Touch("tool", setTool(S, t), 0)
\* touchstart with one touch
FingerDown == Ready /\ env.fingers = 0 /\ \E W \in Pts :
                ~ Covered(W) /\ Touch("down", onTouchStart(S, 1, EvAt(W, -1, TRUE), Zero), 1)
\* touchmove with one touch
FingerMove == Ready /\ env.fingers = 1 /\ \E W \in Pts :
                Touch("move", onTouchMove(S, 1, EvAt(W, -1, TRUE), Zero, Zero, Zero), 1)
\* touchstart with two touches: a second finger joins the first, or both arrive at once
SecondFinger == Ready /\ env.fingers \in { 0, 1 } /\ \E W \in Pts :
                  Touch("pinchstart", onTouchStart(S, 2, EvAt(W, -1, TRUE), I(40)), 2)
\* touchmove with two touches, at distance d, their midpoint at W
PinchMove == Ready /\ env.fingers = 2 /\ \E d \in TouchDists, W \in Pts :
               LET p == PosAt(W)[1]
               IN  Touch("pinch", onTouchMove(S, 2, EvAt(W, -1, TRUE), d, p.sx, p.sy), 2)
\* touchend: one of two fingers is lifted, the other stays at W
FirstFingerUp == Ready /\ env.fingers = 2 /\ \E W \in Pts :
                   Touch("up", onTouchEnd(S, PosAt(W)), 1)
\* touchend: the last finger is lifted, e.touches is empty
LastFingerUp == Ready /\ env.fingers = 1 /\ Touch("up", onTouchEnd(S, << >>), 0)

NextTouch ==
  \/ OpenTouch \/ TouchTool \/ FingerDown \/ FingerMove \/ SecondFinger
  \/ PinchMove \/ FirstFingerUp \/ LastFingerUp

SpecTouch == Init /\ [][NextTouch]_vars

(***************************************************************************)
(* SpecBlur: the inline text editor and the timers of its blur listener.   *)
(* Each openTextEditor creates a textarea (editorEl counts them) with a    *)
(* listener 'blur -> setTimeout(commitTextEdit, 80)'.  The focus may leave *)
(* the textarea of the open editor (once per editor here); the timer runs  *)
(* at any later step.  The board is worked with the text and the select    *)
(* tool: presses, double clicks, typing, Escape and Shift+Enter.           *)
(***************************************************************************)
MaxEditors == 3
BlurTools == { "select", "text" }

\* a step to s; el and timers are the textarea count and the pending timers after it
Blur(op, s, el, timers) ==
  /\ env.events < MaxEvents + 2
  /\ Bounded(s)
  /\ Len(s.history) <= MaxDepth + 1
  /\ el <= MaxEditors
  /\ Becomes(Forget(s))
  /\ editorEl' = el /\ blurTimers' = timers
  /\ UNCHANGED << rafPending, rafQueue >>
  /\ env' = [ env EXCEPT !.last = Tag(op, s), !.events = @ + 1 ]

\* the textarea count after handler t: t creates a textarea if it opens an editor
\* when run without one
ElAfter(t(_)) ==
  LET probe == [ S EXCEPT !.textEditor = << >>, !.editingId = NoId ]
  IN  IF t(probe).textEditor # << >> THEN editorEl + 1 ELSE editorEl

OpenBlur == ~ isOpen /\ ~ initialized /\ Blur("open", openWB(S, << >>), editorEl, blurTimers)
BlurTool == Ready /\ \E t \in BlurTools : Blur("tool", setTool(S, t), editorEl, blurTimers)
BlurDown == Ready /\ \E W \in Pts :
              LET e == EvAt(W, 0, FALSE)
                  h(s) == onDown(s, e)
              IN  Blur("down", onDown(S, e),
                       IF textEditor = << >> THEN ElAfter(h) ELSE editorEl, blurTimers)
BlurDblClick == Ready /\ \E W \in Pts :
                  LET e == EvAt(W, 0, FALSE)
                      h(s) == onDblClick(s, e)
                  IN  Blur("dblclick", onDblClick(S, e), ElAfter(h), blurTimers)
BlurType == Ready /\ textEditor # << >> /\
              Blur("type", [ S EXCEPT !.textEditor = << [ @[1] EXCEPT !.value = << "a" >> ] >> ],
                   editorEl, blurTimers)
BlurEscape == Ready /\ textEditor # << >> /\ Blur("escape", cancelTextEdit(S), editorEl, blurTimers)
BlurEnter == Ready /\ textEditor # << >> /\ Blur("enter", commitTextEdit(S), editorEl, blurTimers)
\* the focus leaves the textarea: its blur listener sets the timer
EditorBlur == Ready /\ textEditor # << >> /\ editorEl \notin blurTimers /\
                Blur("blur", S, editorEl, blurTimers \cup { editorEl })
\* the timer set by the blur listener of textarea el runs commitTextEdit
BlurTimer == \E el \in blurTimers :
               Blur("timer", commitTextEdit(S), editorEl, blurTimers \ { el })

NextBlur ==
  \/ OpenBlur \/ BlurTool \/ BlurDown \/ BlurDblClick \/ BlurType
  \/ BlurEscape \/ BlurEnter \/ EditorBlur \/ BlurTimer

SpecBlur == Init /\ [][NextBlur]_vars

(***************************************************************************)
(* SpecCam: edits and camera gestures together.  The board is opened on    *)
(* the stored scene, zoomed by the wheel and panned with the right button, *)
(* and edited with the pointer, the toolbar, the keyboard and the note     *)
(* cards.  env.last names the kind of the last event: "zoom", "pan" (a     *)
(* move while panning), "undo", "redo", "clear", "open", or "edit" for     *)
(* every other event.  A run has at most MaxEvents events.                 *)
(***************************************************************************)
CamTools == { "select", "pen", "eraser", "text" }
KeyEvents == [ key : { "v", "0" }, mod : BOOLEAN, shift : { FALSE }, inField : BOOLEAN ]

CamTag(op) ==
  CASE op = "wheel" -> "zoom"
    [] op = "move" /\ iState = "panning" -> "pan"
    [] op \in { "undo", "redo", "clear", "open" } -> op
    [] OTHER -> "edit"

Cam(op, s) ==
  /\ env.events < MaxEvents
  /\ OutOfOrder(op) => env.odd < MaxOdd
  /\ op = "wheel" => env.zooms < MaxZooms
  /\ (op = "move" /\ iState = "panning") => env.camSteps < MaxCamSteps
  /\ Bounded(s)
  /\ s.stickySeq <= MaxStickySeq + 1
  /\ Len(s.history) <= MaxDepth
  /\ Becomes(Forget(s)) /\ NoRender
  /\ env' = [ env EXCEPT !.last = CamTag(op), !.events = @ + 1,
                         !.odd = IF OutOfOrder(op) THEN @ + 1 ELSE @,
                         !.zooms = IF op = "wheel" THEN @ + 1 ELSE @,
                         !.camSteps = IF op = "move" /\ iState = "panning" THEN @ + 1 ELSE @ ]

CamOpen == ~ isOpen /\ ~ initialized /\ \E d \in Stored \ { << >> } : Cam("open", openWB(S, d))
CamWheel == Ready /\ \E W \in Pts, dy \in { -1, 1 } :
              LET p == PosAt(W)[1] IN Cam("wheel", onWheel(S, dy, p.sx, p.sy))
CamPanDown == Ready /\ \E W \in Pts : ~ Covered(W) /\ Cam("down", onDown(S, EvAt(W, 2, FALSE)))
CamDown == Ready /\ \E W \in Pts : ~ Covered(W) /\ Cam("down", onDown(S, EvAt(W, 0, FALSE)))
CamMove == Ready /\ \E W \in Pts : Cam("move", onMove(S, EvAt(W, 0, FALSE)))
CamUp == Ready /\ \E W \in Pts : Cam("up", onUp(S, PosAt(W)))
CamDblClick == Ready /\ \E W \in Pts : ~ Covered(W) /\ Cam("dblclick", onDblClick(S, EvAt(W, 0, FALSE)))
CamTool == Ready /\ \E t \in CamTools : Cam("tool", setTool(S, t))
CamColor == Ready /\ \E c \in Colors : Cam("color", setColor(S, c))
CamSize == Ready /\ \E v \in Sizes : Cam("size", sizeInput(S, v))
CamUndo == Ready /\ Cam("undo", undo(S))
CamRedo == Ready /\ Cam("redo", redo(S))
CamClear == Ready /\ \E ok \in BOOLEAN : Cam("clear", clearBoard(S, ok))
CamDelete == KeysLive /\ Cam("delete", deleteSelected(S))
\* the keys v and 0, the latter with and without Ctrl, in and out of a text field
CamKey == Ready /\ \E e \in KeyEvents : Cam("key", onKeyDown(S, e, ViewCentre[1], ViewCentre[2]))
CamType == Ready /\ textEditor # << >> /\
             Cam("type", [ S EXCEPT !.textEditor = << [ @[1] EXCEPT !.value = << "a" >> ] >> ])
CamTextEscape == Ready /\ textEditor # << >> /\ Cam("escape", cancelTextEdit(S))
CamTextEnter == Ready /\ textEditor # << >> /\ Cam("enter", commitTextEdit(S))
CamAddNote == Ready /\ Cam("addnote", addStickyClick(S, ViewCentre[1], ViewCentre[2]))
CamDeleteNote == Ready /\ \E id \in StickyIds : Cam("delnote", deleteSticky(S, id))
CamRecolorNote == Ready /\ \E id \in StickyIds : Cam("notecolor", changeStickyColor(S, id, 1))
CamTypeNote == Ready /\ \E id \in StickyIds : Cam("typenote", stickyInput(S, id, "hi"))
CamGrabNote == Ready /\ stickyGrab = << >> /\ \E id \in StickyIds, k \in { "drag", "resize" } :
                 LET p == PosAt(<< 0, 0 >>)[1]
                 IN  Cam("grabnote", IF k = "drag" THEN startStickyDrag(S, id, p.sx, p.sy)
                                     ELSE startStickyResize(S, id, p.sx, p.sy))
CamMoveNote == stickyGrab # << >> /\
                 LET p == PosAt(<< 40, 40 >>)[1] IN Cam("movenote", stickyGrabMove(S, p.sx, p.sy))
CamDropNote == stickyGrab # << >> /\ Cam("dropnote", stickyGrabUp(S))

NextCam ==
  \/ CamOpen \/ CamWheel \/ CamPanDown
  \/ CamDown \/ CamMove \/ CamUp \/ CamDblClick
  \/ CamTool \/ CamColor \/ CamSize \/ CamUndo \/ CamRedo \/ CamClear \/ CamDelete \/ CamKey
  \/ CamType \/ CamTextEscape \/ CamTextEnter
  \/ CamAddNote \/ CamDeleteNote \/ CamRecolorNote \/ CamTypeNote
  \/ CamGrabNote \/ CamMoveNote \/ CamDropNote

SpecCam == Init /\ [][NextCam]_vars

(***************************************************************************)
(* SpecRender: render scheduling.  The board is opened, closed and         *)
(* reopened, zoomed by the wheel, cleared, undone and redone; each step    *)
(* makes the schedRender calls of its handler, and the browser runs the    *)
(* render callbacks it holds at the next frame (RenderFrame).  env.calls   *)
(* counts the schedRender calls since the last frame.                      *)
(***************************************************************************)
\* r is the pair of render variables
schedRenderAlways(r) == [ rafPending |-> TRUE, rafQueue |-> r.rafQueue + 1 ]

schedRender(r) ==
  IF r.rafPending THEN r ELSE [ rafPending |-> TRUE, rafQueue |-> r.rafQueue + 1 ]

\* n calls of schedRender
RECURSIVE Scheduled(_, _)
Scheduled(n, r) == IF n = 0 THEN r ELSE Scheduled(n - 1, schedRender(r))

\* a step to s whose handler calls schedRender n times
Render(op, s, n) ==
  /\ Within(s)
  /\ Len(s.history) <= MaxDepth
  /\ op = "wheel" => env.zooms < MaxZooms
  /\ env.calls + n <= MaxCalls
  /\ Becomes(Forget(s)) /\ NoTimer
  /\ LET To(r) == rafPending' = r.rafPending /\ rafQueue' = r.rafQueue
     IN  To(Scheduled(n, [ rafPending |-> rafPending, rafQueue |-> rafQueue ]))
  /\ env' = [ env EXCEPT !.last = Tag(op, s),
                         !.zooms = IF op = "wheel" THEN @ + 1 ELSE @,
                         !.calls = @ + n ]

\* openWB: resizeCanvas calls schedRender; a reopening calls it once more
RenderOpen == ~ isOpen /\ \E d \in Stored :
                (initialized => d = << >>)
                /\ Render("open", openWB(S, d), IF initialized THEN 2 ELSE 1)
RenderClose == Ready /\ Render("close", closeWB(S), 0)
RenderWheel == Ready /\ \E W \in Pts, dy \in { -1, 1 } :
                 LET p == PosAt(W)[1] IN Render("wheel", onWheel(S, dy, p.sx, p.sy), 1)
RenderClear == Ready /\ \E ok \in BOOLEAN :
                 Render("clear", clearBoard(S, ok), IF ok THEN 1 ELSE 0)
RenderUndo == Ready /\ Render("undo", undo(S), IF histIdx > 0 THEN 1 ELSE 0)
RenderRedo == Ready /\ Render("redo", redo(S), IF histIdx < Len(history) - 1 THEN 1 ELSE 0)
\* the next frame: the browser runs the callbacks it holds; render clears the flag
\* and paints
RenderFrame ==
  /\ rafQueue > 0
  /\ rafPending' = FALSE /\ rafQueue' = 0 /\ NoTimer
  /\ env' = [ env EXCEPT !.last = "other", !.calls = 0 ]
  /\ UNCHANGED progVars

NextRender ==
  \/ RenderOpen \/ RenderClose \/ RenderWheel \/ RenderClear \/ RenderUndo \/ RenderRedo
  \/ RenderFrame

\* the browser delivers animation frames while callbacks are requested
SpecRender == Init /\ [][NextRender]_vars /\ WF_vars(RenderFrame)

(***************************************************************************)
(* Properties of the history (SpecDeep)                                    *)
(***************************************************************************)
\* C1 as stated: after N committed edits from the initialized state, N calls of
\* undo() leave the scene (objects and note cards) equal to the initial scene, and
\* N calls of redo() after them leave it equal to the final scene, for every N.
C1_RoundTripAnyN ==
  /\ (env.phase = "undo" /\ env.k = env.n) => Scene(S) = env.first[1]
  /\ (env.phase = "redo" /\ env.k = env.n) => Scene(S) = env.final[1]

\* C1 for the N the history can hold: the same round trip for N <= MAX_HIST - 1
\* edits.  (The history keeps MAX_HIST snapshots; the snapshot of the initial scene
\* is evicted by edit number MAX_HIST.)
C1_RoundTrip ==
  env.n <= MAX_HIST - 1 =>
    /\ (env.phase = "undo" /\ env.k = env.n) => Scene(S) = env.first[1]
    /\ (env.phase = "redo" /\ env.k = env.n) => Scene(S) = env.final[1]

\* the longest round trip has been made: MAX_HIST - 1 edits, undone and redone
C1_Witness == env.phase = "redo" /\ env.k = env.n /\ env.n = MAX_HIST - 1

\* a push happens in this step
Pushed == history' # history

\* C2: a commit made while redo entries exist (after k >= 1 undos) discards them:
\* the history becomes the entries up to the pointer plus the new snapshot, which
\* is the scene of the edits not undone with the new edit applied; the pointer is
\* at the top and redo() changes nothing.
C2_RedoTruncation ==
  [][ (Pushed /\ histIdx < Len(history) - 1) =>
        /\ Scene(S) = Scene(history[histIdx + 1])
        /\ Len(history') = histIdx + 2
        /\ SubSeq(history', 1, histIdx + 1) = SubSeq(history, 1, histIdx + 1)
        /\ Scene(history'[histIdx + 2]) = Scene(S)'
        /\ histIdx' = Len(history') - 1
        /\ redo(S)' = S' ]_vars

\* 5 edits, 3 undos, then 1 edit: the initial snapshot, 2 edits and the new one
C2_Witness == env.last = "cut" /\ Len(history) = 4 /\ histIdx = 3

\* C3: once initialized, 0 <= histIdx <= history.length - 1 and history.length <=
\* MAX_HIST; every push leaves the pointer at the top entry, keeps the entries up
\* to the old pointer, and evicts the oldest of them when they would be more
\* than MAX_HIST with the new one.
C3_HistoryBound ==
  [][ /\ initialized' =>
           0 <= histIdx' /\ histIdx' <= Len(history') - 1 /\ Len(history') <= MAX_HIST
      /\ Pushed =>
           /\ histIdx' = Len(history') - 1
           /\ IF histIdx + 2 > MAX_HIST
              THEN /\ Len(history') = MAX_HIST
                   /\ SubSeq(history', 1, MAX_HIST - 1) = SubSeq(history, 2, histIdx + 1)
              ELSE /\ Len(history') = histIdx + 2
                   /\ SubSeq(history', 1, histIdx + 1) = SubSeq(history, 1, histIdx + 1) ]_vars

\* the oldest snapshot has been evicted: more edits than the history holds
C3_Witness == env.phase = "edit" /\ env.n >= MAX_HIST /\ Len(history) = MAX_HIST

(***************************************************************************)
(* Properties of the editor (Spec)                                         *)
(***************************************************************************)
\* C4: undo() with the pointer at 0 and redo() with the pointer at the top entry
\* change nothing: objects, note cards, camera, selection, history and pointer
\* are what they were.
C4_BoundaryNoOp ==
  /\ histIdx = 0 => undo(S) = S
  /\ histIdx = Len(history) - 1 => redo(S) = S

\* undo() has run at pointer 0 with something selected, and the selection is kept
C4_Witness == env.last = "undo" /\ histIdx = 0 /\ selectedId # NoId

ObjIds(objs) == { objs[i].id : i \in 1..Len(objs) }
\* the objects this step removes from the scene
RemovedObjs == SelectSeq(objects, LAMBDA o : o.id \notin ObjIds(objects'))

\* C6: whenever a step other than undo or redo removes objects from the scene,
\* some number of undo() calls brings them back: a snapshot below the pointer
\* holds objects with their ids.  (This asks less than the claim, which also wants
\* their fields back.)
C6_RemovalUndoable ==
  [][ (RemovedObjs # << >> /\ env'.last \notin { "undo", "redo" }) =>
        \E j \in 1..histIdx' : ObjIds(RemovedObjs) \subseteq ObjIds(history'[j].objects) ]_vars

Active == { "panning", "drawing", "dragging", "resizing" }

\* C9: the interaction state changes to an active state only from idle.
C9_OnlyFromIdle ==
  [][ (iState' \in Active /\ iState' # iState) => iState = "idle" ]_vars

\* C10: in an active state, every mouse release, every pointer-leave and every
\* touch release leaves the interaction state idle.
C10_ReleaseIdle ==
  iState \in Active =>
    /\ \A W \in Pts : /\ onUp(S, PosAt(W)).iState = "idle"
                      /\ onLeave(S, PosAt(W)).iState = "idle"
    /\ \A pos \in { << >> } \cup UNION { { PosAt(W) } : W \in Pts } :
          onTouchEnd(S, pos).iState = "idle"

\* C11: Escape pressed while a gesture is in progress (the keydown listener calls
\* closeWB) returns the interaction state to idle and drops the gesture's pending
\* stroke or shape, so that nothing of the gesture can be committed later.
C11_EscapeAborts ==
  (KeysLive /\ iState \in Active) =>
     LET Aborted(s) == s.iState = "idle" /\ s.liveStroke = << >> /\ s.previewObj = << >>
     IN  Aborted(closeWB(S))

SouthEast(b) == << Plus(b.x, b.w), Plus(b.y, b.h) >>

\* C14: while a rectangle is resized by the north-west handle of its bounding box,
\* every move leaves the south-east corner of the bounding box where it was when
\* the handle was grabbed, whatever the signs of the rectangle's width and height.
C14_ResizeAnchored ==
  ( /\ Ready /\ iState = "resizing" /\ resizeHandle = "nw" /\ resizeOrigin # << >>
    /\ selectedId # NoId /\ ~ selIsSicky
    /\ getObjById(objects, selectedId) # << >>
    /\ resizeOrigin[1].snapshot.type = "rect"
    /\ resizeOrigin[1].snapshot.id = selectedId )
  => \A W \in Pts :
        LET Anchored(before, after) ==
              after # << >> /\ SouthEast(getBounds(after[1])) = SouthEast(getBounds(before))
        IN  Anchored(resizeOrigin[1].snapshot,
                     getObjById(onMove(S, EvAt(W, 0, FALSE)).objects, selectedId))

PenTools == { "pen", "highlighter" }
WorldPt(W) == << I(W[1]), I(W[2]) >>

\* C16: with the pen or the highlighter, a press at p0 starts a stroke with the one
\* point p0, every move to p appends p, and the release of a stroke of two or more
\* points appends exactly that stroke to the scene under a fresh id, leaving the
\* selection and the tool as they were.
C16_StrokeCommit ==
  /\ (Ready /\ textEditor = << >> /\ iState = "idle" /\ ~ spaceHeld /\ tool \in PenTools)
     => \A W \in Pts :
           LET Started(s) ==
                 /\ s.iState = "drawing" /\ s.liveStroke # << >>
                 /\ s.liveStroke[1].points = << WorldPt(W) >>
                 /\ s.objects = objects /\ s.selectedId = selectedId
           IN  Started(onDown(S, EvAt(W, 0, FALSE)))
  /\ (Ready /\ iState = "drawing" /\ tool \in PenTools /\ liveStroke # << >>)
     => \A W \in Pts :
           LET Extended(s) ==
                 /\ s.liveStroke # << >>
                 /\ s.liveStroke[1].points = Append(liveStroke[1].points, WorldPt(W))
                 /\ s.objects = objects
           IN  Extended(onMove(S, EvAt(W, 0, FALSE)))
  /\ ( /\ Ready /\ iState = "drawing" /\ tool \in PenTools /\ previewObj = << >>
       /\ liveStroke # << >> /\ Len(liveStroke[1].points) >= 2 )
     => \A W \in Pts :
           LET Committed(s) ==
                 /\ s.objects = Append(objects, [ liveStroke[1] EXCEPT !.id = objSeq ])
                 /\ \A i \in 1..Len(objects) : objects[i].id < objSeq
                 /\ s.objSeq = objSeq + 1
                 /\ s.selectedId = selectedId /\ s.selIsSicky = selIsSicky
                 /\ s.tool = tool /\ s.liveStroke = << >> /\ s.iState = "idle"
           IN  Committed(onUp(S, PosAt(W)))

\* a stroke through two points has just been committed with the pen: it is the top
\* of the scene and of the history, nothing is selected
C16_Witness ==
  /\ tool = "pen" /\ iState = "idle" /\ selectedId = NoId /\ objects # << >>
  /\ objects[Len(objects)].type = "stroke"
  /\ objects[Len(objects)].points = << WorldPt(<< 0, 0 >>), WorldPt(<< 40, 40 >>) >>
  /\ histIdx = Len(history) - 1 /\ histIdx >= 1
  /\ history[histIdx + 1].objects = objects /\ history[histIdx].objects # objects

\* one object of each variant, the line and the rectangle in both orientations
Variants ==
  LET Base(t) == [ id |-> NoId, type |-> t, color |-> "#2563EB", width |-> I(4) ]
      With(r, more) == [ f \in DOMAIN r \cup DOMAIN more |->
                           IF f \in DOMAIN more THEN more[f] ELSE r[f] ]
  IN  { With(Base("line"), [ x1 |-> I(10), y1 |-> I(30), x2 |-> I(50), y2 |-> I(20) ]),
        With(Base("line"), [ x1 |-> I(50), y1 |-> I(20), x2 |-> I(10), y2 |-> I(30) ]),
        With(Base("rect"), [ x |-> I(10), y |-> I(20), w |-> I(30), h |-> I(20) ]),
        With(Base("rect"), [ x |-> I(40), y |-> I(40), w |-> I(-30), h |-> I(-20) ]),
        With(Base("rect"), [ x |-> I(40), y |-> I(20), w |-> I(-30), h |-> I(20) ]),
        With(Base("circle"), [ cx |-> I(20), cy |-> I(20), rx |-> I(10), ry |-> I(5) ]),
        With(Base("stroke"), [ points |-> << << I(30), I(10) >>, << I(10), I(20) >> >>,
                               opacity |-> One ]),
        With(Base("text"), [ x |-> I(10), y |-> I(20), content |-> << "a" >>,
                             fontSize |-> I(16) ]) }

\* where the pointer goes during a drag or a resize
MovePts == Pts \cup { << -20, 10 >>, << 15, -5 >> }

\* C23: during a drag, after a move of the pointer the bounding box of the dragged
\* object has its origin at the pointer's world position minus the offset recorded
\* at the press, and its extent as before, for every variant of object; the object
\* after a move does not depend on the moves before it; the release pushes exactly
\* one snapshot and changes no object.
C23_DragFollows ==
  ( /\ Ready /\ iState = "dragging" /\ moveOrigin # << >>
    /\ getObjById(objects, selectedId) # << >> )
  => LET Dragged(s) == getObjById(s.objects, selectedId)[1]
         Follows(s0, ob, W, V) ==
           LET b0 == getBounds(ob)
               Once(o1) ==
                 LET b1 == getBounds(o1)
                 IN  /\ b1.x = Minus(I(W[1]), moveOrigin[1].owx)
                     /\ b1.y = Minus(I(W[2]), moveOrigin[1].owy)
                     /\ b1.w = b0.w /\ b1.h = b0.h
                     /\ o1.id = ob.id /\ o1.type = ob.type
                     /\ Dragged(onMove(onMove(s0, EvAt(V, 0, FALSE)), EvAt(W, 0, FALSE))) = o1
           IN  /\ Once(Dragged(onMove(s0, EvAt(W, 0, FALSE))))
               /\ Len(onMove(s0, EvAt(W, 0, FALSE)).objects) = Len(objects)
         Dropped(s) ==
           /\ s.objects = objects /\ s.iState = "idle"
           /\ s.histIdx = histIdx + 1 /\ Len(s.history) = histIdx + 2
           /\ SubSeq(s.history, 1, histIdx + 1) = SubSeq(history, 1, histIdx + 1)
           /\ s.history[s.histIdx + 1].objects = objects
     IN  /\ \A W \in MovePts, V \in { << -20, 10 >>, << 40, 40 >> } :
              /\ Follows(S, Dragged(S), W, V)
              /\ \A v \in Variants :
                   LET ob == [ v EXCEPT !.id = selectedId ]
                   IN  Follows(WriteObj(S, selectedId, ob), ob, W, V)
         /\ \A W \in Pts : Dropped(onUp(S, PosAt(W)))

\* the stored rectangle, pressed at its corner (0,0), has been dragged to (40,40)
C23_Witness ==
  /\ iState = "dragging" /\ selectedId = StoredRect.id
  /\ objects = << [ StoredRect EXCEPT !.x = I(40), !.y = I(40) ] >>

\* C24: during a resize, the resized object after a move of the pointer is
\* applyResize of the snapshot taken at the press by the delta between the pointer
\* and its position at the press; it does not depend on the moves before, and with
\* the pointer back at the position of the press the object is the snapshot again,
\* which is the object as it was before the press.  For every variant of object
\* and every handle.
C24_ResizePathIndependent ==
  LET Resized(s) == getObjById(s.objects, selectedId)[1]
      At(p) == [ sx |-> p.mx, sy |-> p.my, button |-> 0, touch |-> FALSE ]
      Holds(s0) ==
        LET ro == s0.resizeOrigin[1]
        IN  \A W \in MovePts :
              LET e == EvAt(W, 0, FALSE)
                  Same(o1) ==
                    /\ o1 = applyResize(ro.snapshot, s0.resizeHandle,
                                        Over(Minus(e.sx, ro.mx), cam.scale),
                                        Over(Minus(e.sy, ro.my), cam.scale))
                    /\ \A V \in MovePts : Resized(onMove(onMove(s0, EvAt(V, 0, FALSE)), e)) = o1
              IN  /\ Same(Resized(onMove(s0, e)))
                  /\ Resized(onMove(onMove(s0, e), At(ro))) = ro.snapshot
  IN  /\ ( /\ Ready /\ iState = "resizing" /\ resizeOrigin # << >>
           /\ getObjById(objects, selectedId) # << >> )
         => /\ Holds(S)
            /\ \A v \in Variants, h \in { HandleIds[i] : i \in 1..Len(HandleIds) } :
                 LET ob == [ v EXCEPT !.id = selectedId ]
                 IN  Holds([ WriteObj(S, selectedId, ob)
                             EXCEPT !.resizeHandle = h,
                                    !.resizeOrigin = << [ @[1] EXCEPT !.snapshot = ob ] >> ])
      /\ (Ready /\ iState = "idle" /\ textEditor = << >>)
         => \A P \in Pts, W \in MovePts :
              LET Back(s) ==
                    s.iState = "resizing"
                    => /\ s.resizeOrigin[1].snapshot = Resized(S)
                       /\ Resized(onMove(onMove(s, EvAt(W, 0, FALSE)), EvAt(P, 0, FALSE)))
                          = Resized(S)
              IN  Back(onDown(S, EvAt(P, 0, FALSE)))

\* a resize is under way and the pointer has moved: the object is no longer the
\* snapshot taken at the press
C24_Witness ==
  /\ iState = "resizing" /\ resizeOrigin # << >>
  /\ getObjById(objects, selectedId) # << >>
  /\ getObjById(objects, selectedId)[1] # resizeOrigin[1].snapshot
  /\ resizeOrigin[1].snapshot.id = selectedId

\* the box with corners a and b
Box(a, b) == [ x |-> MinR(a[1], b[1]), y |-> MinR(a[2], b[2]),
               w |-> AbsR(Minus(b[1], a[1])), h |-> AbsR(Minus(b[2], a[2])) ]
\* obj spans the points a and b: a line runs from a to b, a rectangle or an ellipse
\* fills the box with corners a and b
Spans(obj, a, b) ==
  IF obj.type = "line"
  THEN << obj.x1, obj.y1 >> = a /\ << obj.x2, obj.y2 >> = b
  ELSE getBounds(obj) = Box(a, b)

C17_ZeroLengthDiscarded ==
  LET Nothing(s) == s.objects = objects /\ s.objSeq = objSeq /\ s.history = history
                    /\ s.histIdx = histIdx
  IN  /\ ( /\ Ready /\ iState = "drawing" /\ tool \in PenTools /\ previewObj = << >>
           /\ liveStroke # << >> /\ Len(liveStroke[1].points) = 1 )
         => \A W \in Pts : Nothing(onUp(S, PosAt(W)))
      /\ ( /\ Ready /\ iState = "drawing" /\ tool \in ShapeTools /\ liveStroke = << >>
           /\ previewObj # << >> /\ drawOrigin # << >> )
         => LET AtAnchor(p) == Nothing(onUp(S, << [ sx |-> p.x, sy |-> p.y ] >>))
            IN  AtAnchor(w2s(cam, drawOrigin[1].wx, drawOrigin[1].wy))

\* C18: cancelling a text-edit session, by Escape in the editor, by a tool switch or
\* by closing the board, leaves objects, objSeq, the history and its pointer as they
\* are and ends the session: no editor, no target id, the typed content gone.
C18_CancelFrame ==
  (Ready /\ textEditor # << >>) =>
     LET Cancelled(s) ==
           /\ s.objects = objects /\ s.objSeq = objSeq
           /\ s.history = history /\ s.histIdx = histIdx
           /\ s.textEditor = << >> /\ s.editingId = NoId
     IN  /\ Cancelled(cancelTextEdit(S))
         /\ Cancelled(closeWB(S))
         /\ \A t \in Tools : Cancelled(setTool(S, t))

\* a session has just been cancelled
C18_Witness == env.last = "cancel" /\ textEditor = << >> /\ editingId = NoId

\* C19: a text-edit commit whose target object no longer exists abandons: no object
\* is created or modified, no snapshot is pushed, the redo entries are kept.
C19_StaleCommit ==
  (Ready /\ textEditor # << >> /\ editingId # NoId /\ getObjById(objects, editingId) = << >>)
  => LET Abandoned(s) ==
           /\ s.objects = objects /\ s.objSeq = objSeq
           /\ s.history = history /\ s.histIdx = histIdx
     IN  Abandoned(commitTextEdit(S))

\* what the textarea may hold at the commit
EditorValues == { << >>, << " " >>, << "a" >>, << " ", "a", " " >>, << "b", " " >> }
\* the state with this text in the open editor and this color chosen in the palette
Holding(v, c) == [ S EXCEPT !.textEditor = << [ @[1] EXCEPT !.value = v ] >>, !.color = c ]
\* where getObjById finds the object with this id
FirstAt(objs, id) == CHOOSE i \in 1..Len(objs) : objs[i].id = id /\ \A j \in 1..(i - 1) : objs[j].id # id
\* s has one snapshot more than the state, the snapshot of the scene of s
OnePush(s) ==
  /\ Len(s.history) = histIdx + 2 /\ s.histIdx = histIdx + 1
  /\ s.history[Len(s.history)].objects = s.objects
  /\ \A i \in 1..(histIdx + 1) : s.history[i].cam = history[i].cam

\* C28: a commit of a text edit whose trimmed content is not empty either appends
\* one text object with a fresh id at the pending anchor (no target), or changes
\* the content and the color of the target and nothing else of the scene (id,
\* position, font size and z-order kept); either way one snapshot is pushed. A
\* commit whose trimmed content is empty creates and changes no object.
C28_TextCommit ==
  ( /\ Ready /\ textEditor # << >> /\ Len(history) < MAX_HIST
    /\ editingId # NoId => getObjById(objects, editingId) # << >> )
  => \A v \in EditorValues, c \in Colors :
       LET s == commitTextEdit(Holding(v, c))
           n == Len(objects)
           New(o) == /\ o.type = "text" /\ o.content = Trim(v) /\ o.color = c
                     /\ o.id \notin ObjIds(objects)
                     /\ << o.x, o.y >> = << textEditor[1].wx, textEditor[1].wy >>
           Edited(i) == s.objects[i] = [ objects[i] EXCEPT !.content = Trim(v), !.color = c ]
       IN  IF Trim(v) = << >>
           THEN s.objects = objects /\ s.objSeq = objSeq /\ s.history = history
           ELSE /\ OnePush(s)
                /\ IF editingId = NoId
                   THEN /\ Len(s.objects) = n + 1 /\ SubSeq(s.objects, 1, n) = objects
                        /\ New(s.objects[n + 1])
                   ELSE /\ Len(s.objects) = n
                        /\ \A i \in 1..n :
                              IF i = FirstAt(objects, editingId)
                              THEN Edited(i) ELSE s.objects[i] = objects[i]

\* a text has just been placed on the empty board by a commit: it is the only
\* object, at the anchor of the press, and the snapshot pushed holds it
C28_Witness ==
  /\ Ready /\ textEditor = << >> /\ editingId = NoId
  /\ Len(history) = 2 /\ histIdx = 1 /\ history[1].objects = << >>
  /\ Len(objects) = 1 /\ objects[1].type = "text" /\ objects[1].content = << "a" >>
  /\ << objects[1].x, objects[1].y >> = << I(40), I(40) >>
  /\ history[2].objects = objects /\ objSeq = objects[1].id + 1

\* the tools of the toolbar and the buttons of the mouse
PressTools == { "select", "pan", "pen", "highlighter", "eraser", "line", "rect", "circle", "text" }
Buttons == { 0, 1, 2 }

\* C29: while a text-edit session is open, a press on the canvas, with any tool,
\* any button, a finger, the space bar held or not, starts no gesture: the
\* interaction state, the selection, the camera and the scene's strokes and shapes
\* are as before, no stroke or shape is begun and no editor is opened; the press
\* ends the session as a commit does.  At most one session is open at a time.
C29_EditorSwallowsPress ==
  /\ Len(textEditor) <= 1
  /\ (Ready /\ textEditor # << >>) =>
       \A W \in Pts, b \in Buttons, touch \in BOOLEAN, t \in PressTools, sp \in BOOLEAN :
         LET at == [ S EXCEPT !.tool = t, !.spaceHeld = sp ]
             s == onDown(at, EvAt(W, b, touch))
         IN  /\ s.iState = iState /\ (iState = "idle" => s.iState = "idle")
             /\ s.selectedId = selectedId /\ s.selIsSicky = selIsSicky
             /\ s.cam = cam /\ s.tool = t
             /\ s.liveStroke = liveStroke /\ s.previewObj = previewObj
             /\ s.drawOrigin = drawOrigin
             /\ s.textEditor = << >> /\ s.editingId = NoId
             /\ s = commitTextEdit(at)
             /\ \A i \in 1..Len(s.objects) :
                   s.objects[i].type # "text" =>
                     i <= Len(objects) /\ s.objects[i] = objects[i]

\* a press has just ended a session in which something was typed: the text is
\* placed, nothing is selected and no gesture is under way
C29_Witness ==
  /\ Ready /\ env.last = "press" /\ textEditor = << >> /\ editingId = NoId
  /\ iState = "idle" /\ selectedId = NoId /\ liveStroke = << >> /\ previewObj = << >>
  /\ Len(objects) = 1 /\ objects[1].type = "text"

\* C34: with the select tool, a press on an object or on a handle of the selected
\* object, followed by the release at the same point, leaves the history and its
\* pointer as they are.
C34_ClickKeepsHistory ==
  (Ready /\ tool = "select" /\ iState = "idle" /\ textEditor = << >> /\ ~ spaceHeld)
  => \A W \in Pts :
       LET down == onDown(S, EvAt(W, 0, FALSE))
           up == onUp(down, PosAt(W))
       IN  down.iState \in { "dragging", "resizing" } =>
             /\ up.objects = objects
             /\ up.history = history /\ up.histIdx = histIdx

\* the state with k added to the id of every object: k = 0 is the state itself, a
\* larger k a scene whose objects were made later in the session
IdsFrom(k) == [ S EXCEPT !.objects = [ i \in 1..Len(@) |-> [ @[i] EXCEPT !.id = @ + k ] ] ]
IdShifts == { 0, 5 }

\* C35: while a note card is selected, a change of the color or of the brush size
\* modifies no object and pushes no snapshot, and an erasure keeps the card
\* selected, whether or not an object has the card's id.
C35_NoteSelectionIsolated ==
  (Ready /\ selIsSicky /\ selectedId # NoId /\ getStickyById(stickies, selectedId) # << >>)
  => \A k \in IdShifts :
       LET at == IdsFrom(k)
           Kept(s) == s.objects = at.objects /\ s.history = history /\ s.histIdx = histIdx
       IN  /\ \A c \in Colors : Kept(setColor(at, c))
           /\ \A v \in Sizes : Kept(sizeInput(at, v))
           /\ \A W \in Pts :
                 LET s == eraseAt(at, I(W[1]), I(W[2]))
                 IN  s.selectedId = selectedId /\ s.selIsSicky

(***************************************************************************)
(* Properties of the handles (SpecHandle)                                  *)
(***************************************************************************)
\* the handle of obj with this id
HandleOf(obj, id) ==
  LET hs == getHandles(obj) IN hs[CHOOSE i \in 1..Len(hs) : hs[i].id = id]
\* the square of the distance of the points (ax, ay) and (bx, by)
DistSq(ax, ay, bx, by) == Plus(Sq(Minus(ax, bx)), Sq(Minus(ay, by)))

\* C25: in the resize of a line, the endpoint that follows the pointer is the one
\* nearest to the anchor of the dragged handle, and the other endpoint keeps its
\* coordinates, in either orientation of the line.
C25_NearestEndpoint ==
  ( /\ Ready /\ iState = "resizing" /\ resizeOrigin # << >>
    /\ resizeOrigin[1].snapshot.type = "line"
    /\ getObjById(objects, selectedId) # << >> )
  => \A W \in HandlePts :
       LET ln == resizeOrigin[1].snapshot
           h == HandleOf(ln, resizeHandle)
           e == EvAt(W, 0, FALSE)
           dx == Over(Minus(e.sx, resizeOrigin[1].mx), cam.scale)
           dy == Over(Minus(e.sy, resizeOrigin[1].my), cam.scale)
           d1 == DistSq(h.wx, h.wy, ln.x1, ln.y1)
           d2 == DistSq(h.wx, h.wy, ln.x2, ln.y2)
           First(o) == /\ << o.x1, o.y1 >> = << Plus(ln.x1, dx), Plus(ln.y1, dy) >>
                       /\ << o.x2, o.y2 >> = << ln.x2, ln.y2 >>
           Second(o) == /\ << o.x2, o.y2 >> = << Plus(ln.x2, dx), Plus(ln.y2, dy) >>
                        /\ << o.x1, o.y1 >> = << ln.x1, ln.y1 >>
           Nearest(o) == /\ Less(d1, d2) => First(o)
                         /\ Less(d2, d1) => Second(o)
                         /\ First(o) \/ Second(o)
       IN  Nearest(getObjById(onMove(S, e).objects, selectedId)[1])

\* C26: hitHandle returns no handle when the screen point lies in no handle's disk
\* of radius HANDLE_R + 3, and otherwise a handle whose anchor is nearest to the
\* point among the eight.
C26_NearestHandle ==
  ( /\ Ready /\ selectedId # NoId /\ ~ selIsSicky
    /\ getObjById(objects, selectedId) # << >> )
  => \A W \in HandlePts :
       LET obj == getObjById(objects, selectedId)[1]
           p == PosAt(W)[1]
           hs == getHandles(obj)
           D(i) == LET sp == w2s(cam, hs[i].wx, hs[i].wy) IN DistSq(p.sx, p.sy, sp.x, sp.y)
           Near(id) ==
             IF id = ""
             THEN \A i \in 1..Len(hs) : Less(Sq(I(HANDLE_R + 3)), D(i))
             ELSE \E i \in 1..Len(hs) :
                    /\ hs[i].id = id /\ LessEq(D(i), Sq(I(HANDLE_R + 3)))
                    /\ \A j \in 1..Len(hs) : LessEq(D(i), D(j))
       IN  Near(hitHandle(cam, p.sx, p.sy, obj))

Exact ==
  /\ cam.scale[2] \in 1..MaxDenom /\ cam.scale[1] \in 1..MaxDenom
  /\ \A i \in 1..Len(objects) :
        LET b == getBounds(objects[i])
        IN  \A r \in { b.x, b.y, b.w, b.h } : r[2] \in 1..MaxDenom
\* the radius of the eraser, in world units
EraserRadius == Over(I(3 * brushSize), cam.scale)
\* the distance of the centre of obj's bounding box from the world point W is less
\* than lim (or, with orEqual, not more than lim)
CentreWithin(obj, W, lim, orEqual) ==
  LET b == getBounds(obj)
      d == DistSq(I(W[1]), I(W[2]), Plus(b.x, Half(b.w)), Plus(b.y, Half(b.h)))
      gap == Minus(d, Sq(lim))[1]   \* its sign: d against the square of lim
  IN  IF orEqual THEN LessEq(Zero, lim) /\ gap <= 0
      ELSE Less(Zero, lim) /\ gap < 0
\* eraseAt at W leaves exactly the objects that Stays holds of, in their order
Erases(W, Stays(_)) == eraseAt(S, I(W[1]), I(W[2])).objects = SelectSeq(objects, Stays)

Held(h) == [ objects |-> h.objects, stickies |-> h.stickies, cam |-> h.cam ]
EmptyBoard == [ objects |-> << >>, stickies |-> << >>, cam |-> IdentityCam ]

\* C30: after a confirmed clear the board has no objects and no note cards, nothing
\* is selected, the camera is at pan (0,0) and scale 1, and one snapshot, of that
\* empty board, has been pushed after the entry the pointer was on; a declined
\* clear leaves objects, note cards, camera, selection and history as they are.
C30_BoardClear ==
  (Ready /\ Len(history) < MAX_HIST) =>
     LET yes == clearBoard(S, TRUE)
         no == clearBoard(S, FALSE)
     IN  /\ yes.objects = << >> /\ yes.stickies = << >>
         /\ yes.selectedId = NoId /\ yes.cam = IdentityCam
         /\ Len(yes.history) = histIdx + 2 /\ yes.histIdx = histIdx + 1
         /\ Held(yes.history[histIdx + 2]) = EmptyBoard
         /\ \A i \in 1..(histIdx + 1) : Held(yes.history[i]) = Held(history[i])
         /\ no.objects = objects /\ no.stickies = stickies /\ no.cam = cam
         /\ no.selectedId = selectedId /\ no.selIsSicky = selIsSicky
         /\ no.history = history /\ no.histIdx = histIdx

\* a board that had objects has just been cleared
C30_Witness ==
  /\ Ready /\ env.last = "clear" /\ objects = << >> /\ stickies = << >>
  /\ cam = IdentityCam /\ selectedId = NoId
  /\ Len(history) = 2 /\ histIdx = 1
  /\ history[1].objects # << >> /\ Held(history[2]) = EmptyBoard

\* C32: with the board open and the focus outside any text field, the key 0 with
\* Ctrl or Cmd sets the camera to pan (0,0) and scale 1 and leaves objects, note
\* cards, selection and history as they are.
C32_ResetView ==
  Ready =>
    LET s == onKeyDown(S, [ key |-> "0", mod |-> TRUE, shift |-> FALSE, inField |-> FALSE ],
                       ViewCentre[1], ViewCentre[2])
    IN  /\ s.cam = IdentityCam
        /\ s.objects = objects /\ s.stickies = stickies
        /\ s.selectedId = selectedId /\ s.selIsSicky = selIsSicky
        /\ \A i \in 1..Len(history) : Held(s.history[i]) = Held(history[i])
        /\ Len(s.history) = Len(history) /\ s.histIdx = histIdx

\* C33: whenever the interaction state is idle, no stroke in progress and no
\* preview shape is held.
C33_NoResidue == (Ready /\ iState = "idle") => (liveStroke = << >> /\ previewObj = << >>)

(***************************************************************************)
(* Properties of touch input (SpecTouch)                                   *)
(***************************************************************************)
\* C31: while two fingers are on the canvas, whatever the tool, no step adds a
\* point to a stroke or creates, moves, resizes or erases an object, the lifting of
\* a finger included: the objects stay as they are and the stroke in progress
\* gains no point.
C31_PinchOnly ==
  [][ env.fingers = 2 =>
        /\ objects' = objects
        /\ liveStroke' \in { liveStroke, << >> } ]_vars

\* C31, the moves alone: a touchmove with two touches changes the camera and
\* nothing of the scene or of the gesture under way
PinchMovesOnlyZoom ==
  [][ (env.fingers = 2 /\ env'.fingers = 2) =>
        /\ objects' = objects /\ liveStroke' = liveStroke /\ previewObj' = previewObj
        /\ iState' = iState /\ history' = history /\ selectedId' = selectedId ]_vars

(***************************************************************************)
(* Properties of the blur timers (SpecBlur)                                *)
(***************************************************************************)
\* C36: when the blur timer of a textarea runs after its session has ended and
\* another editor has been opened, the open editor, its content and target and
\* the objects are left as they are.
C36_TimerOwnSession ==
  [][ \A el \in blurTimers :
        (blurTimers' = blurTimers \ { el } /\ el # editorEl /\ textEditor # << >>)
        => (textEditor' = textEditor /\ editingId' = editingId /\ objects' = objects
            /\ history' = history) ]_vars

(***************************************************************************)
(* Properties of render scheduling (SpecRender)                            *)
(***************************************************************************)
\* C20: at most one render callback is outstanding, rafPending is true exactly
\* while one is, any number of schedRender calls since the last frame leave exactly
\* one callback (one paint at the next frame), and every schedRender call is
\* followed by a frame that paints.
C20_RenderCoalescing ==
  /\ [](/\ rafQueue <= 1
        /\ rafPending <=> rafQueue = 1
        /\ env.calls > 0 <=> rafQueue = 1)
  /\ (rafPending ~> ~ rafPending)

\* several schedRender calls since the last frame, one callback outstanding
C20_Witness == env.calls >= 2 /\ rafQueue = 1 /\ rafPending

(***************************************************************************)
(* Properties of picking (SpecPick)                                        *)
(***************************************************************************)
\* obj is hit at the point 5 world units off the middle of the stored line
HitOffLine(obj) == hitObject(cam, obj, I(OffLine[1]), I(OffLine[2]))

\* C15 as stated: a line of width 4 picked 5 world units off its segment is not hit
\* at scale 1 and is hit at scale 4.
C15_PickAsStated ==
  \A i \in 1..Len(objects) :
     objects[i] = StoredLine =>
       /\ cam.scale = One => ~ HitOffLine(objects[i])
       /\ cam.scale = I(4) => HitOffLine(objects[i])

\* C15, as the code picks: the tolerance is 8 screen pixels, 8 / scale world units,
\* plus half the width.  5 units off the segment the line is hit at scale 1
\* (5 < 8 + 2) and not hit at scale 4 (5 >= 2 + 2); a press there with the select
\* tool selects the line at scale 1 and selects nothing at scale 4.
C15_PickPrecision ==
  /\ \A i \in 1..Len(objects) :
        objects[i] = StoredLine =>
          /\ cam.scale = One => HitOffLine(objects[i])
          /\ cam.scale = I(4) => ~ HitOffLine(objects[i])
  /\ (env.last = "pick" /\ objects = << StoredLine >>) =>
        /\ cam.scale = One => selectedId = StoredLine.id
        /\ cam.scale = I(4) => selectedId = NoId

\* at scale 4, a press 5 units off the line has just selected nothing
C15_Witness ==
  env.last = "pick" /\ objects = << StoredLine >> /\ cam.scale = I(4) /\ selectedId = NoId

(***************************************************************************)
(* Properties of the camera (SpecZoom)                                     *)
(***************************************************************************)
\* a comparison with NaN is false
InRange(r) == IsNumber(r) /\ LessEq(ScaleMin, r) /\ LessEq(r, ScaleMax)

\* C12: in every state of an initialized board 0.05 <= cam.scale <= 20, after any
\* sequence of wheel zoom, pinch zoom, pan, undo, redo, board clear and load.
C12_ScaleInRange == initialized => InRange(cam.scale)

\* the factors of a wheel step and of a pinch, those that run into a clamp included
ZoomFactors == { WheelIn, WheelOut, I(40), Rat(1, 40), Zero, Infinity }

\* C13: for the camera of any reachable state, any factor and any screen point
\* (sx, sy), the world point under (sx, sy) after applyZoom(factor, sx, sy) is the
\* world point that was under it before, also when the new scale is clamped.
C13_ZoomTowardCursor ==
  IsNumber(cam.scale) =>
    \A factor \in ZoomFactors, P \in { PosAt(W)[1] : W \in Pts } \cup { [ sx |-> ViewCentre[1], sy |-> ViewCentre[2] ] } :
       LET Same(c2) == s2w(c2, P.sx, P.sy) = s2w(cam, P.sx, P.sy)
       IN  Same(applyZoom(S, factor, P.sx, P.sy).cam)

\* a zoom step about a point off the origin has just run into the upper clamp
C13_Witness == env.last = "zoom" /\ cam.scale = ScaleMax /\ cam.x # Zero

(***************************************************************************)
(* Properties of object ids (SpecPress)                                    *)
(***************************************************************************)
\* C8: the objects of the scene have pairwise distinct ids, all below objSeq, the
\* next id to be assigned.
C8_IdsUnique ==
  /\ \A i, j \in 1..Len(objects) : i # j => objects[i].id # objects[j].id
  /\ \A i \in 1..Len(objects) : objects[i].id < objSeq

=============================================================================
